---------------------------- MODULE Spec2Model ----------------------------
(***************************************************************************)
(* Model of the discovery graph and crawl controller of src/osint.py:      *)
(* RelevanceFilter, IntelligenceStore and the loop of A1OSINT.start.       *)
(*                                                                         *)
(* Strings are sequences of one-character strings, so that lower(),        *)
(* strip(), split('@') and the substring test `in` are computed and not    *)
(* assumed.  A Python dict is a function whose domain is its set of keys;  *)
(* the empty dict is the function with the empty domain.  Confidences are  *)
(* IEEE doubles in the code; here they are integers in thousandths, and    *)
(* the two sums the doubles do not compute exactly are kept apart from     *)
(* their neighbours (see FSub).  Timestamps (discovered_at, completed_at,  *)
(* time) are written by the code and never read by it: they are left out.  *)
(***************************************************************************)
EXTENDS Integers, Sequences, FiniteSets, TLC

VARIABLES
    store,       \* IntelligenceStore: nodes, queue, connections, ...
    pc,          \* position of A1OSINT.start (or "api" for direct store use)
    max_depth,   \* A1OSINT.max_depth
    pool,        \* the entries the resolvers of this run can return
    checks,      \* hunt_username: per site of self.sites, the state of its check
    driver,      \* A1OSINT.driver: "none", "open" or "quit"
    job,         \* key of the node get_next_job returned (a reference), or None
    results,     \* local `results` of the loop body
    new_nodes,   \* local `new_nodes` of the loop body, the part not yet folded
    exc,         \* the exception in flight or propagated, "" when none
    emitted,     \* number of candidates the resolvers returned so far
    ops,         \* number of store calls made through the API so far
    last,        \* the most recent call observed: its arguments and outcome
    admits,      \* per key, the (source, confidence) of every add_node call
    resolved     \* keys of the jobs handed to a resolver, in order

vars == <<store, pc, max_depth, pool, checks, driver, job, results, new_nodes, exc,
          emitted, ops, last, admits, resolved>>

----------------------------------------------------------------------------
(* Bounds of the model *)

\* total number of candidates the resolvers may return in one run
MaxEmitted == 3
\* largest max_depth a run is configured with
MaxMaxDepth == 1
\* number of store calls made in one direct use of the store API
MaxOps == 4
\* number of sites in self.sites (sites.json)
NumSites == 3
\* ThreadPoolExecutor(max_workers=20), scaled to the number of sites
MaxWorkers == 2

\* the longest list of new nodes one resolver call returns in runs whose
\* resolvers rediscover each other
MaxFound == 2

----------------------------------------------------------------------------
(* Strings *)

None == <<>>

EmptyDict == [k \in {} |-> TRUE]

Truthy(d) == DOMAIN d # {}

Get(d, k) == IF k \in DOMAIN d THEN d[k] ELSE FALSE

LowerChar(c) ==
    CASE c = "A" -> "a" [] c = "B" -> "b" [] c = "C" -> "c" [] c = "D" -> "d"
      [] c = "E" -> "e" [] c = "F" -> "f" [] c = "G" -> "g" [] c = "H" -> "h"
      [] c = "I" -> "i" [] c = "J" -> "j" [] c = "K" -> "k" [] c = "L" -> "l"
      [] c = "M" -> "m" [] c = "N" -> "n" [] c = "O" -> "o" [] c = "P" -> "p"
      [] c = "Q" -> "q" [] c = "R" -> "r" [] c = "S" -> "s" [] c = "T" -> "t"
      [] c = "U" -> "u" [] c = "V" -> "v" [] c = "W" -> "w" [] c = "X" -> "x"
      [] c = "Y" -> "y" [] c = "Z" -> "z" [] OTHER -> c

Lower(s) == [i \in 1..Len(s) |-> LowerChar(s[i])]

Whitespace == {" ", "\t", "\n", "\r"}

RECURSIVE LStrip(_)
LStrip(s) ==
    IF s # <<>> /\ Head(s) \in Whitespace THEN LStrip(Tail(s)) ELSE s

RECURSIVE RStrip(_)
RStrip(s) ==
    IF s # <<>> /\ s[Len(s)] \in Whitespace
    THEN RStrip(SubSeq(s, 1, Len(s) - 1))
    ELSE s

Strip(s) == RStrip(LStrip(s))

\* Python's `sub in s`
Contains(sub, s) ==
    \E i \in 0..(Len(s) - Len(sub)) : SubSeq(s, i + 1, i + Len(sub)) = sub

Count(c, s) == Cardinality({i \in 1..Len(s) : s[i] = c})

StartsWith(s, c) == s # <<>> /\ s[1] = c

Digits == {"0", "1", "2", "3", "4", "5", "6", "7", "8", "9"}

IsDigit(s) == s # <<>> /\ \A i \in 1..Len(s) : s[i] \in Digits

\* the part of s before the first occurrence of c (c occurs in s)
Before(c, s) ==
    LET i == CHOOSE j \in 1..Len(s) : s[j] = c /\ \A m \in 1..(j - 1) : s[m] # c
    IN  SubSeq(s, 1, i - 1)

\* a sequence has no repeated entry
NoDup(q) == \A i, j \in 1..Len(q) : q[i] = q[j] => i = j

Range(q) == {q[i] : i \in 1..Len(q)}

----------------------------------------------------------------------------
(* String literals of the code *)

t_username    == <<"u","s","e","r","n","a","m","e">>
t_email       == <<"e","m","a","i","l">>
t_domain      == <<"d","o","m","a","i","n">>
t_ip          == <<"i","p">>
t_person      == <<"p","e","r","s","o","n">>
t_company     == <<"c","o","m","p","a","n","y">>
t_profile_url == <<"p","r","o","f","i","l","e","_","u","r","l">>
t_url         == <<"u","r","l">>

s_initial == <<"i","n","i","t","i","a","l">>

NOISE_DOMAINS == {
    <<"g","o","o","g","l","e",".","c","o","m">>,
    <<"g","s","t","a","t","i","c",".","c","o","m">>,
    <<"g","o","o","g","l","e","a","p","i","s",".","c","o","m">>,
    <<"g","o","o","g","l","e","-","a","n","a","l","y","t","i","c","s",".","c","o","m">>,
    <<"f","a","c","e","b","o","o","k",".","c","o","m">>,
    <<"f","b","c","d","n",".","n","e","t">>,
    <<"f","a","c","e","b","o","o","k",".","n","e","t">>,
    <<"d","o","u","b","l","e","c","l","i","c","k",".","n","e","t">>,
    <<"g","o","o","g","l","e","s","y","n","d","i","c","a","t","i","o","n",".","c","o","m">>,
    <<"a","m","a","z","o","n","-","a","d","s","y","s","t","e","m",".","c","o","m">>,
    <<"g","o","o","g","l","e","t","a","g","m","a","n","a","g","e","r",".","c","o","m">>,
    <<"r","e","c","a","p","t","c","h","a",".","n","e","t">>,
    <<"c","l","o","u","d","f","l","a","r","e",".","c","o","m">>,
    <<"j","q","u","e","r","y",".","c","o","m">>,
    <<"j","s","d","e","l","i","v","r",".","n","e","t">>,
    <<"c","d","n","j","s",".","c","l","o","u","d","f","l","a","r","e",".","c","o","m">>,
    <<"b","o","o","t","s","t","r","a","p","c","d","n",".","c","o","m">>,
    <<"f","o","n","t","a","w","e","s","o","m","e",".","c","o","m">>,
    <<"f","o","n","t","s",".","g","o","o","g","l","e","a","p","i","s",".","c","o","m">> }

NOISE_USERNAMES == {
    <<"f","o","n","t">>, <<"c","s","s">>, <<"s","t","y","l","e">>,
    <<"l","i","c","e","n","s","e">>, <<"a","b","o","u","t">>,
    <<"c","o","n","t","a","c","t">>, <<"a","d","m","i","n">>,
    <<"i","n","f","o">>, <<"s","u","p","p","o","r","t">>, <<"h","e","l","p">>,
    <<"t","e","s","t">>, <<"u","s","e","r">>, <<"d","e","m","o">>,
    <<"e","x","a","m","p","l","e">>, <<"p","r","i","v","a","c","y">>,
    <<"t","e","r","m","s">>, <<"l","o","g","i","n">>,
    <<"r","e","g","i","s","t","e","r">>, <<"a","p","i">> }

GenericLocalParts == {
    <<"n","o","r","e","p","l","y">>, <<"n","o","-","r","e","p","l","y">>,
    <<"i","n","f","o">>, <<"a","d","m","i","n">>,
    <<"s","u","p","p","o","r","t">>, <<"h","e","l","l","o">> }

----------------------------------------------------------------------------
(* RelevanceFilter *)

is_relevant_domain(domain) ==
    /\ \A noise \in NOISE_DOMAINS : ~Contains(noise, Lower(domain))
    /\ ~(\/ Contains(<<"*">>, domain)
         \/ StartsWith(domain, ".")
         \/ ~Contains(<<".">>, domain))

is_relevant_username(username) ==
    /\ Lower(username) \notin NOISE_USERNAMES
    /\ ~(Len(username) < 3 \/ Len(username) > 30)
    /\ ~IsDigit(username)

\* `local, domain = email.split('@')` raises unless there is exactly one '@';
\* the bare except turns that into False
is_relevant_email(email) ==
    IF Count("@", email) # 1
    THEN FALSE
    ELSE ~(\E g \in GenericLocalParts : Contains(g, Lower(Before("@", email))))

\* confidence -= 0.3 in doubles: 0.5 - 0.3 is 0.2 and 1.1 - 0.3 is 0.8, while
\* 0.9 - 0.3 is 0.6000000000000001 and 0.7 - 0.3 is 0.39999999999999997,
\* written 601 and 399: one step off the thousandth they round to
FSub(c) ==
    CASE c = 900 -> 601
      [] c = 700 -> 399
      [] OTHER   -> c - 300

\* min that lets its first argument through
MinUnclamped(a, b) == a

Min(a, b) == IF a < b THEN a ELSE b

\* entity_value.split('@')[1] raises IndexError when the value holds no '@'
calculate_confidence_raises(entity_type, entity_value, context) ==
    entity_type = t_email /\ Count("@", entity_value) = 0

\* calculate_confidence without the two `return 0.1` lines: noise goes on to
\* the adjustments of its type
calculate_confidence_scores_noise(entity_type, entity_value, context) ==
    LET base == 500
        email1 == IF "target_domain" \in DOMAIN context
                     /\ context["target_domain"] # <<>>
                     /\ Contains(context["target_domain"], entity_value)
                  THEN base + 400 ELSE base
        email2 == IF "source_type" \in DOMAIN context
                     /\ context["source_type"] = "profile"
                  THEN email1 + 200 ELSE email1
        email3 == IF ~is_relevant_email(entity_value)
                  THEN FSub(email2) ELSE email2
        user1  == IF Get(context, "verified") THEN base + 400 ELSE base
        user2  == IF Get(context, "from_bio") THEN user1 + 200 ELSE user1
        dom1   == IF Get(context, "is_personal_site") THEN base + 300 ELSE base
        pers1  == IF Get(context, "verified_profile") THEN base + 400 ELSE base
    IN  CASE entity_type = t_email -> Min(email3, 1000)
          [] entity_type = t_username -> Min(user2, 1000)
          [] entity_type = t_domain -> Min(dom1, 1000)
          [] entity_type = t_person -> Min(pers1, 1000)
          [] OTHER -> Min(base, 1000)

calculate_confidence(entity_type, entity_value, context) ==
    LET base == 500
        email1 == IF "target_domain" \in DOMAIN context
                     /\ context["target_domain"] # <<>>
                     /\ Contains(context["target_domain"], entity_value)
                  THEN base + 400 ELSE base
        email2 == IF "source_type" \in DOMAIN context
                     /\ context["source_type"] = "profile"
                  THEN email1 + 200 ELSE email1
        email3 == IF ~is_relevant_email(entity_value)
                  THEN FSub(email2) ELSE email2
        user1  == IF Get(context, "verified") THEN base + 400 ELSE base
        user2  == IF Get(context, "from_bio") THEN user1 + 200 ELSE user1
        dom1   == IF Get(context, "is_personal_site") THEN base + 300 ELSE base
        pers1  == IF Get(context, "verified_profile") THEN base + 400 ELSE base
    IN  CASE entity_type = t_email -> Min(email3, 1000)
          [] entity_type = t_username ->
                IF ~is_relevant_username(entity_value) THEN 100
                ELSE Min(user2, 1000)
          [] entity_type = t_domain ->
                IF ~is_relevant_domain(entity_value) THEN 100
                ELSE Min(dom1, 1000)
          [] entity_type = t_person -> Min(pers1, 1000)
          [] OTHER -> Min(base, 1000)


----------------------------------------------------------------------------
(* IntelligenceStore *)

EmptyStore ==
    [nodes |-> EmptyDict, queue |-> <<>>, connections |-> <<>>,
     discovery_timeline |-> <<>>, processed_count |-> 0, skipped_count |-> 0]

\* Key without lower(): the value is used as given
KeyAsGiven(node_type, node_value) == node_type \o <<":">> \o node_value

\* key = f"{node_type}:{node_value.lower()}"
Key(node_type, node_value) == node_type \o <<":">> \o Lower(node_value)

\* node_type.strip().lower() and str(node_value).strip()
NormType(node_type) == Lower(Strip(node_type))

NormValue(node_value) == Strip(node_value)

\* the confidence add_node goes on with: computed when `if context:` holds
EffectiveConfidence(node_type, node_value, confidence, context) ==
    IF Truthy(context)
    THEN calculate_confidence(node_type, node_value, context)
    ELSE confidence

\* the first return of add_node: `if not node_value or not node_type`
Ignored(node_type, node_value) == node_value = <<>> \/ node_type = <<>>

add_node_raises(node_type, node_value, context) ==
    /\ ~Ignored(node_type, node_value)
    /\ Truthy(context)
    /\ calculate_confidence_raises(node_type, node_value, context)

\* TooLow with the threshold at 0.2
TooLowAtTwoTenths(confidence) == confidence < 200

\* `if confidence < 0.3`
TooLow(confidence) == confidence < 300

\* Merge without the test `source not in sources`
MergeAppendAlways(node, source, depth, confidence) ==
    [node EXCEPT
        !.confidence = IF confidence > @ THEN confidence ELSE @,
        !.sources = Append(@, source)]

\* Merge that takes the new confidence whatever the old one
MergeOverwrite(node, source, depth, confidence) ==
    [node EXCEPT
        !.confidence = confidence,
        !.sources = IF source \in Range(@) THEN @ ELSE Append(@, source)]

\* Merge that keeps the smallest depth seen
MergeLowerDepth(node, source, depth, confidence) ==
    [node EXCEPT
        !.confidence = IF confidence > @ THEN confidence ELSE @,
        !.sources = IF source \in Range(@) THEN @ ELSE Append(@, source),
        !.depth = IF depth < @ THEN depth ELSE @]

\* Merge that empties the results of the node
MergeClearsResults(node, source, depth, confidence) ==
    [node EXCEPT
        !.confidence = IF confidence > @ THEN confidence ELSE @,
        !.sources = IF source \in Range(@) THEN @ ELSE Append(@, source),
        !.results = EmptyDict]

\* Merge that makes the node queued again
MergeRequeues(node, source, depth, confidence) ==
    [node EXCEPT
        !.confidence = IF confidence > @ THEN confidence ELSE @,
        !.sources = IF source \in Range(@) THEN @ ELSE Append(@, source),
        !.status = "queued"]

\* the branch `if key in self.nodes`; the depth argument is not used there
Merge(node, source, depth, confidence) ==
    [node EXCEPT
        !.confidence = IF confidence > @ THEN confidence ELSE @,
        !.sources = IF source \in Range(@) THEN @ ELSE Append(@, source)]

\* NewNode that takes the depth for 0 when it is not given as a keyword
NewNodeAtDepthZero(node_type, node_value, source, depth, confidence) ==
    [type |-> node_type, value |-> node_value, status |-> "queued",
     depth |-> 0, sources |-> <<source>>, results |-> EmptyDict,
     confidence |-> confidence]

NewNode(node_type, node_value, source, depth, confidence) ==
    [type |-> node_type, value |-> node_value, status |-> "queued",
     depth |-> depth, sources |-> <<source>>, results |-> EmptyDict,
     confidence |-> confidence]

\* add_node that queues a key again when it merges into its node
add_node_requeues(s, node_type, node_value, source, depth, confidence, context) ==
    LET conf == EffectiveConfidence(node_type, node_value, confidence, context)
        ntype == NormType(node_type)
        nvalue == NormValue(node_value)
        key == Key(ntype, nvalue)
    IN  IF Ignored(node_type, node_value) THEN s
        ELSE IF TooLow(conf)
        THEN [s EXCEPT !.skipped_count = @ + 1]
        ELSE IF key \in DOMAIN s.nodes
        THEN [s EXCEPT
                !.nodes[key] =
                    [Merge(@, source, depth, conf) EXCEPT !.status = "queued"],
                !.queue = Append(@, key)]
        ELSE [s EXCEPT
                !.nodes = (key :> NewNode(ntype, nvalue, source, depth, conf)) @@ @,
                !.queue = Append(@, key),
                !.discovery_timeline =
                    Append(@, [node |-> key, source |-> source, confidence |-> conf])]

\* add_node that writes a timeline record for a merge as well
add_node_logs_merge(s, node_type, node_value, source, depth, confidence, context) ==
    LET conf == EffectiveConfidence(node_type, node_value, confidence, context)
        ntype == NormType(node_type)
        nvalue == NormValue(node_value)
        key == Key(ntype, nvalue)
    IN  IF Ignored(node_type, node_value) THEN s
        ELSE IF TooLow(conf)
        THEN [s EXCEPT !.skipped_count = @ + 1]
        ELSE IF key \in DOMAIN s.nodes
        THEN [s EXCEPT
                !.nodes[key] = Merge(@, source, depth, conf),
                !.discovery_timeline =
                    Append(@, [node |-> key, source |-> source, confidence |-> conf])]
        ELSE [s EXCEPT
                !.nodes = (key :> NewNode(ntype, nvalue, source, depth, conf)) @@ @,
                !.queue = Append(@, key),
                !.discovery_timeline =
                    Append(@, [node |-> key, source |-> source, confidence |-> conf])]

add_node(s, node_type, node_value, source, depth, confidence, context) ==
    LET conf == EffectiveConfidence(node_type, node_value, confidence, context)
        ntype == NormType(node_type)
        nvalue == NormValue(node_value)
        key == Key(ntype, nvalue)
    IN  IF Ignored(node_type, node_value) THEN s
        ELSE IF TooLow(conf)
        THEN [s EXCEPT !.skipped_count = @ + 1]
        ELSE IF key \in DOMAIN s.nodes
        THEN [s EXCEPT !.nodes[key] = Merge(@, source, depth, conf)]
        ELSE [s EXCEPT
                !.nodes = (key :> NewNode(ntype, nvalue, source, depth, conf)) @@ @,
                !.queue = Append(@, key),
                !.discovery_timeline =
                    Append(@, [node |-> key, source |-> source, confidence |-> conf])]

\* add_connection with the two ends exchanged
add_connection_reversed(s, source_key, target_key, relationship) ==
    [s EXCEPT !.connections =
        Append(@, [from |-> target_key, to |-> source_key, type |-> relationship])]

add_connection(s, source_key, target_key, relationship) ==
    [s EXCEPT !.connections =
        Append(@, [from |-> source_key, to |-> target_key, type |-> relationship])]

\* deque.remove(key): the first occurrence goes
RECURSIVE Remove(_, _)
Remove(q, key) ==
    IF q = <<>> THEN <<>>
    ELSE IF Head(q) = key THEN Tail(q)
    ELSE <<Head(q)>> \o Remove(Tail(q), key)

\* Better with the comparison turned round
BetterIfLower(confidence, best_confidence) == confidence < best_confidence

\* Better with >=: the last of the equal ones wins
BetterOrEqual(confidence, best_confidence) == confidence >= best_confidence

\* `if self.nodes[key]['confidence'] > best_confidence`
Better(confidence, best_confidence) == confidence > best_confidence

\* the loop `for key in list(self.queue)` of get_next_job
RECURSIVE Scan(_, _, _, _, _)
Scan(nodes, snapshot, queue, best_job, best_confidence) ==
    IF snapshot = <<>>
    THEN [queue |-> queue, best_job |-> best_job]
    ELSE LET key == Head(snapshot)
         IN  IF nodes[key].status # "queued"
             THEN Scan(nodes, Tail(snapshot), Remove(queue, key),
                       best_job, best_confidence)
             ELSE IF Better(nodes[key].confidence, best_confidence)
             THEN Scan(nodes, Tail(snapshot), queue, key, nodes[key].confidence)
             ELSE Scan(nodes, Tail(snapshot), queue, best_job, best_confidence)

\* get_next_job that takes the queued key at the head of the queue
get_next_job_fifo(s) ==
    IF s.queue = <<>>
    THEN [store |-> s, job |-> None]
    ELSE [store |-> [s EXCEPT !.queue = Tail(@),
                              !.nodes[Head(s.queue)].status = "processing"],
          job |-> Head(s.queue)]

\* get_next_job without self.queue.remove(best_job)
get_next_job_leaves_queue(s) ==
    IF s.queue = <<>>
    THEN [store |-> s, job |-> None]
    ELSE LET r == Scan(s.nodes, s.queue, s.queue, None, 0)
         IN  IF r.best_job # None
             THEN [store |-> [s EXCEPT
                                !.queue = r.queue,
                                !.nodes[r.best_job].status = "processing"],
                   job |-> r.best_job]
             ELSE [store |-> [s EXCEPT !.queue = r.queue], job |-> None]

\* get_next_job without `self.nodes[best_job]['status'] = 'processing'`
get_next_job_keeps_status(s) ==
    IF s.queue = <<>>
    THEN [store |-> s, job |-> None]
    ELSE LET r == Scan(s.nodes, s.queue, s.queue, None, 0)
         IN  IF r.best_job # None
             THEN [store |-> [s EXCEPT !.queue = Remove(r.queue, r.best_job)],
                   job |-> r.best_job]
             ELSE [store |-> [s EXCEPT !.queue = r.queue], job |-> None]

\* returns the store after the call and the key of the node returned (the
\* code returns the node dict itself, a reference into self.nodes)
get_next_job(s) ==
    IF s.queue = <<>>
    THEN [store |-> s, job |-> None]
    ELSE LET r == Scan(s.nodes, s.queue, s.queue, None, 0)
         IN  IF r.best_job # None
             THEN [store |-> [s EXCEPT
                                !.queue = Remove(r.queue, r.best_job),
                                !.nodes[r.best_job].status = "processing"],
                   job |-> r.best_job]
             ELSE [store |-> [s EXCEPT !.queue = r.queue], job |-> None]

\* mark_processed that counts a key it does not find
mark_processed_counts_unknown(s, key, res) ==
    LET key_lower == Lower(key)
    IN  IF key_lower \in DOMAIN s.nodes
        THEN [s EXCEPT !.nodes[key_lower].status = "processed",
                       !.nodes[key_lower].results = res,
                       !.processed_count = @ + 1]
        ELSE [s EXCEPT !.processed_count = @ + 1]

\* mark_processed without `self.processed_count += 1`
mark_processed_uncounted(s, key, res) ==
    LET key_lower == Lower(key)
    IN  IF key_lower \in DOMAIN s.nodes
        THEN [s EXCEPT !.nodes[key_lower].status = "processed",
                       !.nodes[key_lower].results = res]
        ELSE s

\* mark_processed that leaves the status as it is
mark_processed_keeps_status(s, key, res) ==
    LET key_lower == Lower(key)
    IN  IF key_lower \in DOMAIN s.nodes
        THEN [s EXCEPT !.nodes[key_lower].results = res,
                       !.processed_count = @ + 1]
        ELSE s

mark_processed(s, key, res) ==
    LET key_lower == Lower(key)
    IN  IF key_lower \in DOMAIN s.nodes
        THEN [s EXCEPT !.nodes[key_lower].status = "processed",
                       !.nodes[key_lower].results = res,
                       !.processed_count = @ + 1]
        ELSE s

\* get_statistics whose nodes_by_type counts every node, processed or not
get_statistics_counts_all(s) ==
    [total_discovered |-> Cardinality(DOMAIN s.nodes),
     processed |-> s.processed_count,
     skipped_low_confidence |-> s.skipped_count,
     high_confidence_targets |->
        Cardinality({k \in DOMAIN s.nodes : s.nodes[k].confidence > 700}),
     nodes_by_type |->
        [t \in {s.nodes[k].type : k \in DOMAIN s.nodes}
           |-> Cardinality({k \in DOMAIN s.nodes : s.nodes[k].type = t})],
     connections |-> Len(s.connections)]

\* get_statistics; nodes_by_type counts the processed nodes of each type
get_statistics(s) ==
    [total_discovered |-> Cardinality(DOMAIN s.nodes),
     processed |-> s.processed_count,
     skipped_low_confidence |-> s.skipped_count,
     high_confidence_targets |->
        Cardinality({k \in DOMAIN s.nodes : s.nodes[k].confidence > 700}),
     nodes_by_type |->
        [t \in {s.nodes[k].type :
                    k \in {j \in DOMAIN s.nodes : s.nodes[j].status = "processed"}}
           |-> Cardinality({k \in DOMAIN s.nodes :
                               /\ s.nodes[k].status = "processed"
                               /\ s.nodes[k].type = t})],
     connections |-> Len(s.connections)]

\* get_high_value_nodes that leaves out the nodes skipped for their depth
get_high_value_nodes_without_skipped(s) ==
    [k \in {j \in DOMAIN s.nodes :
               /\ s.nodes[j].status = "processed"
               /\ s.nodes[j].confidence >= 500
               /\ Truthy(s.nodes[j].results)
               /\ s.nodes[j].results # [skipped |-> "max_depth"]}
       |-> s.nodes[k]]

\* get_high_value_nodes without the test of v['results']
get_high_value_nodes_any_results(s) ==
    [k \in {j \in DOMAIN s.nodes :
               /\ s.nodes[j].status = "processed"
               /\ s.nodes[j].confidence >= 500}
       |-> s.nodes[k]]

\* the dict comprehension of get_high_value_nodes; v['results'] is true of
\* a dict that is not empty
get_high_value_nodes(s) ==
    [k \in {j \in DOMAIN s.nodes :
               /\ s.nodes[j].status = "processed"
               /\ s.nodes[j].confidence >= 500
               /\ Truthy(s.nodes[j].results)}
       |-> s.nodes[k]]

----------------------------------------------------------------------------
(* What is observed of a call *)

NoCall == [op |-> "none"]

\* the key the spec gives an admission: type + ":" + lowercase(value)
AdmitKey(node_type, node_value) ==
    Key(NormType(node_type), NormValue(node_value))

ObserveAddNode(node_type, node_value, source, depth, confidence, context) ==
    [op |-> "add_node", type |-> node_type, value |-> node_value,
     source |-> source, depth |-> depth, context |-> context,
     key |-> AdmitKey(node_type, node_value),
     ignored |-> Ignored(node_type, node_value),
     raised |-> add_node_raises(node_type, node_value, context),
     confidence |->
        IF Ignored(node_type, node_value)
           \/ add_node_raises(node_type, node_value, context)
        THEN -1
        ELSE EffectiveConfidence(node_type, node_value, confidence, context)]

RecordAdmit(a, call) ==
    IF call.confidence < 0 THEN a
    ELSE LET e == [source |-> call.source, confidence |-> call.confidence]
         IN  IF call.key \in DOMAIN a
             THEN [a EXCEPT ![call.key] = @ \cup {e}]
             ELSE (call.key :> {e}) @@ a

----------------------------------------------------------------------------
(* Values and contexts the store and the resolvers are exercised with *)

v_a_x_io     == <<"a","@","x",".","i","o">>
v_A_x_io     == <<"A","@","x",".","i","o">>
v_a_x_io_sp  == <<"a","@","x",".","i","o"," ">>
v_admin_x_io == <<"a","d","m","i","n","@","x",".","i","o">>
v_ax_io      == <<"a","x",".","i","o">>
v_Ann        == <<"A","n","n">>
v_ann        == <<"a","n","n">>
v_api        == <<"a","p","i">>
v_x_io       == <<"x",".","i","o">>
v_Acme       == <<"A","c","m","e">>
v_bob        == <<"b","o","b">>

k_username_Ann == <<"u","s","e","r","n","a","m","e",":","A","n","n">>
k_email_a_x_io == <<"e","m","a","i","l",":","a","@","x",".","i","o">>
k_domain_x_io  == <<"d","o","m","a","i","n",":","x",".","i","o">>
k_email_A_x_io == <<"e","m","a","i","l",":","A","@","x",".","i","o">>
k_ip_unknown   == <<"i","p",":","1",".","1">>

s_discovered == <<"d","i","s","c","o","v","e","r","e","d">>

\* the context hunt_username gives a profile it found (line 903)
ctx_profile == [verified |-> TRUE, source_type |-> "profile"]
\* contexts of hunt_profile_url, hunt_email and hunt_person
ctx_bio == [source_type |-> "profile", verified |-> TRUE, from_bio |-> TRUE]
ctx_site == [source_type |-> "profile", verified |-> TRUE, is_personal_site |-> TRUE]
ctx_from_email == [from_email |-> TRUE]
ctx_verified == [verified |-> TRUE]
ctx_source_profile == [source_type |-> "profile"]
ctx_generated == [generated_from_name |-> TRUE]

SkipResult == [skipped |-> "max_depth"]
ErrorResult == [error |-> "message"]
DataResult == [data |-> "found"]

Call(type, value, source, depth, confidence, context) ==
    [type |-> type, value |-> value, source |-> source, depth |-> depth,
     confidence |-> confidence, context |-> context]

\* argument lists of add_node: the seed's call, rediscoveries under another
\* letter case, with surrounding whitespace, from other sources and depths,
\* contexts that raise or lower the confidence, confidences on both sides of
\* the threshold, an empty value, and an email without '@'
StoreCalls == {
    Call(t_email, v_a_x_io, s_initial, 0, 1000, EmptyDict),
    Call(t_email, v_A_x_io, k_username_Ann, 1, 500, EmptyDict),
    Call(t_email, v_a_x_io_sp, k_domain_x_io, 2, 500, ctx_profile),
    Call(t_email, v_a_x_io, k_username_Ann, 1, 200, EmptyDict),
    Call(t_email, v_admin_x_io, k_username_Ann, 1, 500, ctx_from_email),
    Call(t_email, v_admin_x_io, k_domain_x_io, 2, 500, ctx_source_profile),
    Call(t_username, v_Ann, s_initial, 0, 500, EmptyDict),
    Call(t_username, v_ann, k_email_a_x_io, 1, 500, ctx_verified),
    Call(t_username, v_ann, k_domain_x_io, 2, 500, ctx_bio),
    Call(t_username, v_api, k_email_a_x_io, 1, 500, ctx_verified),
    Call(t_domain, v_x_io, k_email_a_x_io, 1, 300, EmptyDict),
    Call(t_email, <<>>, k_username_Ann, 1, 500, ctx_profile),
    Call(t_email, v_ax_io, k_username_Ann, 1, 500, ctx_bio) }

\* keys mark_processed is called with: as the controller builds them (type
\* and value as stored), in another letter case, and one the store never held
MarkKeys == {k_email_a_x_io, k_email_A_x_io, k_username_Ann, k_ip_unknown}

MarkResults == {EmptyDict, DataResult}

----------------------------------------------------------------------------
(* Direct use of the store API: any sequence of calls *)

StoreInit ==
    /\ store = EmptyStore
    /\ pc = "api"
    /\ max_depth = 0
    /\ pool = {}
    /\ checks = EmptyDict
    /\ driver = "none"
    /\ job = None
    /\ results = EmptyDict
    /\ new_nodes = <<>>
    /\ exc = ""
    /\ emitted = 0
    /\ ops = 0
    /\ last = NoCall
    /\ admits = EmptyDict
    /\ resolved = <<>>

ApiFrame == UNCHANGED <<pc, max_depth, pool, checks, driver, results, new_nodes, exc,
                        emitted, resolved>>

ApiAddNode ==
    /\ pc = "api" /\ ops < MaxOps
    /\ \E c \in StoreCalls :
          LET seen == ObserveAddNode(c.type, c.value, c.source, c.depth,
                                     c.confidence, c.context)
          IN  /\ store' = IF seen.raised THEN store
                          ELSE add_node(store, c.type, c.value, c.source,
                                        c.depth, c.confidence, c.context)
              /\ last' = seen
              /\ admits' = RecordAdmit(admits, seen)
    /\ ops' = ops + 1
    /\ UNCHANGED job
    /\ ApiFrame

ApiGetNextJob ==
    /\ pc = "api" /\ ops < MaxOps
    /\ LET r == get_next_job(store)
       IN  /\ store' = r.store
           /\ job' = r.job
           /\ last' = [op |-> "get_next_job", job |-> r.job]
    /\ ops' = ops + 1
    /\ UNCHANGED admits
    /\ ApiFrame

ApiMarkProcessed ==
    /\ pc = "api" /\ ops < MaxOps
    /\ \E key \in MarkKeys, res \in MarkResults :
          /\ store' = mark_processed(store, key, res)
          /\ last' = [op |-> "mark_processed", key |-> key, results |-> res]
    /\ ops' = ops + 1
    /\ UNCHANGED <<job, admits>>
    /\ ApiFrame

ApiAddConnection ==
    /\ pc = "api" /\ ops < MaxOps
    /\ \E from \in {k_username_Ann}, to \in {k_email_A_x_io, k_domain_x_io} :
          /\ store' = add_connection(store, from, to, s_discovered)
          /\ last' = [op |-> "add_connection", from |-> from, to |-> to]
    /\ ops' = ops + 1
    /\ UNCHANGED <<job, admits>>
    /\ ApiFrame

StoreNext ==
    \/ ApiAddNode
    \/ ApiGetNextJob
    \/ ApiMarkProcessed
    \/ ApiAddConnection

StoreSpec == StoreInit /\ [][StoreNext]_vars

----------------------------------------------------------------------------
(* A1OSINT.start: the crawl loop *)

Seed(type, value) == [type |-> type, value |-> value]

\* seeds of a run: types with a resolver, the type routed to the company
\* branch, and a type no branch of the routing names
Seeds == {
    Seed(t_username, v_Ann),
    Seed(t_email, v_A_x_io),
    Seed(t_company, v_Acme),
    Seed(t_url, v_x_io) }

Cand(type, value, context) ==
    [type |-> type, value |-> value, context |-> context]

\* entries a resolver may put in new_nodes: a new entity, the same entity in
\* another letter case, the seed again, a generic address, a noise-free
\* domain, and an email value without '@'
Candidates == {
    Cand(t_email, v_a_x_io, ctx_profile),
    Cand(t_email, v_A_x_io, EmptyDict),
    Cand(t_email, v_admin_x_io, ctx_from_email),
    Cand(t_username, v_ann, ctx_verified),
    Cand(t_domain, v_x_io, ctx_site),
    Cand(t_email, v_ax_io, ctx_bio) }

SeqsUpTo(S, n) == UNION {[1..m -> S] : m \in 0..n}

\* the types the routing of start() has a hunt_* method for
ResolverTypes ==
    {t_username, t_profile_url, t_email, t_domain, t_ip, t_person}

\* the types for which start() calls _init_browser
BrowserTypes == {t_username, t_profile_url, t_person}

\* f"{job['type']}:{job['value']}"
JobKey(s, k) == s.nodes[k].type \o <<":">> \o s.nodes[k].value

\* BeyondDepth that finds no job too deep
BeyondDepthNever(depth, bound) == FALSE

\* BeyondDepth with the bound one too far
BeyondDepthPlusOne(depth, bound) == depth > bound + 1

\* `if job['depth'] > self.max_depth`
BeyondDepth(depth, bound) == depth > bound

Init ==
    /\ store = EmptyStore
    /\ pc = "start"
    /\ max_depth \in 0..MaxMaxDepth
    /\ pool = Candidates
    /\ checks = EmptyDict
    /\ driver = "none"
    /\ job = None
    /\ results = EmptyDict
    /\ new_nodes = <<>>
    /\ exc = ""
    /\ emitted = 0
    /\ ops = 0
    /\ last = NoCall
    /\ admits = EmptyDict
    /\ resolved = <<>>

\* lines 1253-1258: _init_browser for some seed types (it may leave the
\* driver unset), then the seed is admitted
Start ==
    /\ pc = "start"
    /\ \E seed \in Seeds :
          LET seen == ObserveAddNode(seed.type, seed.value, s_initial, 0,
                                     1000, EmptyDict)
          IN  /\ driver' \in IF seed.type \in BrowserTypes
                             THEN {"open", "none"} ELSE {"none"}
              /\ store' = add_node(store, seed.type, seed.value, s_initial, 0,
                                   1000, EmptyDict)
              /\ last' = seen
              /\ admits' = RecordAdmit(admits, seen)
    /\ pc' = "loop"
    /\ UNCHANGED <<max_depth, pool, checks, job, results, new_nodes, exc, emitted, ops,
                   resolved>>

\* GetNextJob that leaves the loop at a job beyond the depth bound (`break`
\* for `continue`)
GetNextJobBreaksOnDepth ==
    /\ pc = "loop"
    /\ LET r == get_next_job(store)
       IN  /\ store' = r.store
           /\ job' = r.job
           /\ last' = [op |-> "get_next_job", job |-> r.job]
           /\ pc' = IF r.job = None THEN "finally"
                    ELSE IF BeyondDepth(r.store.nodes[r.job].depth, max_depth)
                    THEN "finally"
                    ELSE "dispatch"
    /\ UNCHANGED <<max_depth, pool, checks, driver, results, new_nodes, exc, emitted, ops,
                   admits, resolved>>

\* lines 1261-1264: the next job, the end of the loop, the depth test
GetNextJob ==
    /\ pc = "loop"
    /\ LET r == get_next_job(store)
       IN  /\ store' = r.store
           /\ job' = r.job
           /\ last' = [op |-> "get_next_job", job |-> r.job]
           /\ pc' = IF r.job = None THEN "finally"
                    ELSE IF BeyondDepth(r.store.nodes[r.job].depth, max_depth)
                    THEN "skip"
                    ELSE "dispatch"
    /\ UNCHANGED <<max_depth, pool, checks, driver, results, new_nodes, exc, emitted, ops,
                   admits, resolved>>

\* lines 1265-1266
SkipDepth ==
    /\ pc = "skip"
    /\ store' = mark_processed(store, JobKey(store, job), SkipResult)
    /\ last' = [op |-> "mark_processed", key |-> JobKey(store, job),
                results |-> SkipResult]
    /\ pc' = "loop"
    /\ UNCHANGED <<max_depth, pool, checks, driver, job, results, new_nodes, exc, emitted,
                   ops, admits, resolved>>

\* ResolverRaises with the exception let out of the loop
ResolverRaisesAborts ==
    /\ pc = "dispatch"
    /\ store.nodes[job].type \in ResolverTypes
    /\ exc' = "Exception"
    /\ pc' = "finally"
    /\ last' = [op |-> "resolve", job |-> job, raised |-> TRUE]
    /\ resolved' = Append(resolved, job)
    /\ UNCHANGED <<store, max_depth, pool, checks, driver, job, results, new_nodes, emitted,
                   ops, admits>>

\* lines 1268-1282: a hunt_* method returns its results and its new nodes;
\* hunt_profile_url gets as far as its scrapers only with self.hunter, which
\* _init_browser sets after self.driver
ResolverReturns ==
    /\ pc = "dispatch"
    /\ store.nodes[job].type \in ResolverTypes
    /\ store.nodes[job].type = t_profile_url => driver = "open"
    /\ \E res \in {EmptyDict, DataResult},
          found \in SeqsUpTo(pool, MaxEmitted - emitted) :
          /\ results' = res
          /\ new_nodes' = found
          /\ emitted' = emitted + Len(found)
    /\ last' = [op |-> "resolve", job |-> job, raised |-> FALSE]
    /\ resolved' = Append(resolved, job)
    /\ pc' = "mark"
    /\ UNCHANGED <<store, max_depth, pool, checks, driver, job, exc, ops, admits>>

\* lines 1268-1288: a hunt_* method raises, `except Exception` catches it
ResolverRaises ==
    /\ pc = "dispatch"
    /\ store.nodes[job].type \in ResolverTypes
    /\ store.nodes[job].type = t_profile_url => driver = "open"
    /\ results' = ErrorResult
    /\ new_nodes' = <<>>
    /\ last' = [op |-> "resolve", job |-> job, raised |-> TRUE]
    /\ resolved' = Append(resolved, job)
    /\ pc' = "mark"
    /\ UNCHANGED <<store, max_depth, pool, checks, driver, job, exc, emitted, ops, admits>>

\* lines 1268-1285: the company branch, and the types no branch names
NoResolver ==
    /\ pc = "dispatch"
    /\ store.nodes[job].type \notin ResolverTypes
    /\ results' = IF store.nodes[job].type = t_company
                  THEN [company_name |-> store.nodes[job].value]
                  ELSE EmptyDict
    /\ new_nodes' = <<>>
    /\ last' = [op |-> "route", job |-> job]
    /\ pc' = "mark"
    /\ UNCHANGED <<store, max_depth, pool, checks, driver, job, exc, emitted, ops, admits,
                   resolved>>

\* line 1290
MarkProcessed ==
    /\ pc = "mark"
    /\ store' = mark_processed(store, JobKey(store, job), results)
    /\ last' = [op |-> "mark_processed", key |-> JobKey(store, job),
                results |-> results]
    /\ pc' = "fold"
    /\ UNCHANGED <<max_depth, pool, checks, driver, job, results, new_nodes, exc, emitted,
                   ops, admits, resolved>>

\* lines 1293-1303, one turn of `for node in new_nodes`: add_node, then
\* add_connection; an exception of add_node leaves the loop through `finally`
AddNewNode ==
    /\ pc = "fold"
    /\ new_nodes # <<>>
    /\ LET node == Head(new_nodes)
           context == node.context
           source_key == JobKey(store, job)
           depth == store.nodes[job].depth + 1
           seen == ObserveAddNode(node.type, node.value, source_key, depth,
                                  500, context)
       IN  /\ last' = seen
           /\ admits' = RecordAdmit(admits, seen)
           /\ IF seen.raised
              THEN /\ exc' = "IndexError"
                   /\ pc' = "finally"
                   /\ UNCHANGED <<store, new_nodes>>
              ELSE /\ store' = add_connection(
                                  add_node(store, node.type, node.value,
                                           source_key, depth, 500, context),
                                  source_key,
                                  node.type \o <<":">> \o node.value,
                                  s_discovered)
                   /\ new_nodes' = Tail(new_nodes)
                   /\ UNCHANGED <<exc, pc>>
    /\ UNCHANGED <<max_depth, pool, checks, driver, job, results, emitted, ops, resolved>>

\* the for loop is over: back to `while True`
NextIteration ==
    /\ pc = "fold"
    /\ new_nodes = <<>>
    /\ pc' = "loop"
    /\ UNCHANGED <<store, max_depth, pool, checks, driver, job, results, new_nodes, exc,
                   emitted, ops, last, admits, resolved>>

\* a KeyboardInterrupt anywhere inside the try block (no handler in start)
Interrupt ==
    /\ pc \in {"loop", "skip", "dispatch", "mark", "fold"}
    /\ exc' = "KeyboardInterrupt"
    /\ pc' = "finally"
    /\ UNCHANGED <<store, max_depth, pool, checks, driver, job, results, new_nodes, emitted,
                   ops, last, admits, resolved>>

\* Finally with _quit_browser after the loop instead of in `finally`: an
\* exception passes it by
FinallyQuitsOnSuccess ==
    /\ pc = "finally"
    /\ driver' = IF driver = "open" /\ exc = "" THEN "quit" ELSE driver
    /\ pc' = IF exc = "" THEN "returned" ELSE "propagated"
    /\ UNCHANGED <<store, max_depth, pool, checks, job, results, new_nodes, exc,
                   emitted, ops, last, admits, resolved>>

\* lines 1304-1306: _quit_browser, then the return or the exception goes on
Finally ==
    /\ pc = "finally"
    /\ driver' = IF driver = "open" THEN "quit" ELSE driver
    /\ pc' = IF exc = "" THEN "returned" ELSE "propagated"
    /\ UNCHANGED <<store, max_depth, pool, checks, job, results, new_nodes, exc, emitted,
                   ops, last, admits, resolved>>

Next ==
    \/ Start
    \/ GetNextJob
    \/ SkipDepth
    \/ ResolverReturns
    \/ ResolverRaises
    \/ NoResolver
    \/ MarkProcessed
    \/ AddNewNode
    \/ NextIteration
    \/ Interrupt
    \/ Finally

Spec == Init /\ [][Next]_vars

\* entries of a run whose resolvers return email addresses only: a generic
\* address with no context, with a context that adds nothing, with the
\* context of a profile page, and a personal address with a verified context
NoiseCandidates == {
    Cand(t_email, v_admin_x_io, EmptyDict),
    Cand(t_email, v_admin_x_io, ctx_verified),
    Cand(t_email, v_admin_x_io, ctx_bio),
    Cand(t_email, v_a_x_io, ctx_verified),
    Cand(t_email, v_a_x_io, ctx_profile) }

NoiseInit ==
    /\ store = EmptyStore
    /\ pc = "start"
    /\ max_depth \in 0..MaxMaxDepth
    /\ pool = NoiseCandidates
    /\ checks = EmptyDict
    /\ driver = "none"
    /\ job = None
    /\ results = EmptyDict
    /\ new_nodes = <<>>
    /\ exc = ""
    /\ emitted = 0
    /\ ops = 0
    /\ last = NoCall
    /\ admits = EmptyDict
    /\ resolved = <<>>

NoiseSpec == NoiseInit /\ [][Next]_vars

\* entries of a run in which a chain of discoveries goes deeper while a
\* candidate of lower confidence waits: two usernames found on a platform
\* (0.9) and a domain seen on a profile page (0.5)
OrderCandidates == {
    Cand(t_username, v_ann, ctx_verified),
    Cand(t_username, v_bob, ctx_verified),
    Cand(t_domain, v_x_io, ctx_source_profile) }

OrderInit ==
    /\ store = EmptyStore
    /\ pc = "start"
    /\ max_depth = MaxMaxDepth + 1
    /\ pool = OrderCandidates
    /\ checks = EmptyDict
    /\ driver = "none"
    /\ job = None
    /\ results = EmptyDict
    /\ new_nodes = <<>>
    /\ exc = ""
    /\ emitted = 0
    /\ ops = 0
    /\ last = NoCall
    /\ admits = EmptyDict
    /\ resolved = <<>>

OrderSpec == OrderInit /\ [][Next]_vars

\* entries of a run whose resolvers find each other's entities again and
\* again: each of the two usernames may come back from every job, the seed
\* Ann among them
CycleCandidates == {
    Cand(t_username, v_ann, ctx_verified),
    Cand(t_username, v_bob, ctx_verified) }

CycleInit ==
    /\ store = EmptyStore
    /\ pc = "start"
    /\ max_depth \in 0..MaxMaxDepth
    /\ pool = CycleCandidates
    /\ checks = EmptyDict
    /\ driver = "none"
    /\ job = None
    /\ results = EmptyDict
    /\ new_nodes = <<>>
    /\ exc = ""
    /\ emitted = 0
    /\ ops = 0
    /\ last = NoCall
    /\ admits = EmptyDict
    /\ resolved = <<>>

\* the seed of these runs
CycleSeeds == {Seed(t_username, v_Ann)}

\* Start for a seed of CycleSeeds
CycleStart ==
    /\ pc = "start"
    /\ \E seed \in CycleSeeds :
          LET seen == ObserveAddNode(seed.type, seed.value, s_initial, 0,
                                     1000, EmptyDict)
          IN  /\ driver' \in IF seed.type \in BrowserTypes
                             THEN {"open", "none"} ELSE {"none"}
              /\ store' = add_node(store, seed.type, seed.value, s_initial, 0,
                                   1000, EmptyDict)
              /\ last' = seen
              /\ admits' = RecordAdmit(admits, seen)
    /\ pc' = "loop"
    /\ UNCHANGED <<max_depth, pool, checks, job, results, new_nodes, exc, emitted, ops,
                   resolved>>

\* GetNextJob, with the jobs it returns counted in ops
GetNextJobCounted ==
    /\ pc = "loop"
    /\ LET r == get_next_job(store)
       IN  /\ store' = r.store
           /\ job' = r.job
           /\ last' = [op |-> "get_next_job", job |-> r.job]
           /\ ops' = IF r.job = None THEN ops ELSE ops + 1
           /\ pc' = IF r.job = None THEN "finally"
                    ELSE IF BeyondDepth(r.store.nodes[r.job].depth, max_depth)
                    THEN "skip"
                    ELSE "dispatch"
    /\ UNCHANGED <<max_depth, pool, checks, driver, results, new_nodes, exc,
                   emitted, admits, resolved>>

\* ResolverReturns with no limit on what the whole run emits: every call
\* returns up to MaxFound entries of the pool
ResolverReturnsAny ==
    /\ pc = "dispatch"
    /\ store.nodes[job].type \in ResolverTypes
    /\ store.nodes[job].type = t_profile_url => driver = "open"
    /\ \E res \in {EmptyDict, DataResult}, found \in SeqsUpTo(pool, MaxFound) :
          /\ results' = res
          /\ new_nodes' = found
          /\ emitted' = emitted + Len(found)
    /\ last' = [op |-> "resolve", job |-> job, raised |-> FALSE]
    /\ resolved' = Append(resolved, job)
    /\ pc' = "mark"
    /\ UNCHANGED <<store, max_depth, pool, checks, driver, job, exc, ops, admits>>

CycleNext ==
    \/ CycleStart
    \/ GetNextJobCounted
    \/ SkipDepth
    \/ ResolverReturnsAny
    \/ ResolverRaises
    \/ MarkProcessed
    \/ AddNewNode
    \/ NextIteration
    \/ Interrupt
    \/ Finally

\* start() is one thread that takes its next step whenever it has one; a
\* resolver call comes back, with its entries or with an exception
CycleFairSpec == CycleInit /\ [][CycleNext]_vars /\ WF_vars(CycleNext)

----------------------------------------------------------------------------
(* A1OSINT.hunt_username: the fan-out over self.sites *)

Sites == DOMAIN checks

\* the name of a site in sites.json and config['url'].format(username)
SiteChar == <<"1", "2", "3", "4", "5", "6">>

Platform(site) == <<"p", SiteChar[site]>>

Url(site, username) == <<"u", SiteChar[site], "/">> \o username

\* what one check_site call comes to: the site answered as a profile page,
\* it answered otherwise, or the request raised (timeout, connection error)
Outcomes == {"found", "not_found", "raised"}

Check(state, outcome, probes) ==
    [state |-> state, outcome |-> outcome, probes |-> probes]

Running == {s \in Sites : checks[s].state = "running"}

\* the result check_site returns: a dict for a profile that was found, None
\* otherwise (`except: pass`, then `return None`)
check_site(site, username, outcome) ==
    IF outcome = "found"
    THEN [platform |-> Platform(site), url |-> Url(site, username)]
    ELSE None

\* the entry hunt_username appends to new_nodes for a result
ProfileNode(result) ==
    [type |-> t_profile_url, value |-> result.url,
     platform |-> result.platform, context |-> ctx_profile]

FanInit ==
    /\ store = EmptyStore
    /\ pc = "start"
    /\ max_depth \in 0..MaxMaxDepth
    /\ pool = {}
    /\ checks \in {[s \in S |-> Check("idle", "none", 0)] :
                      S \in {{}, 1..NumSites}}
    /\ driver = "none"
    /\ job = None
    /\ results = EmptyDict
    /\ new_nodes = <<>>
    /\ exc = ""
    /\ emitted = 0
    /\ ops = 0
    /\ last = NoCall
    /\ admits = EmptyDict
    /\ resolved = <<>>

\* lines 868-893: results and new_nodes are set up and one check per site is
\* submitted to the executor
FanSubmit ==
    /\ pc = "dispatch"
    /\ store.nodes[job].type = t_username
    /\ Sites # {}
    /\ checks' = [s \in Sites |-> Check("submitted", "none", 0)]
    /\ results' = [platforms_found |-> <<>>]
    /\ new_nodes' = <<>>
    /\ last' = [op |-> "submit", job |-> job]
    /\ pc' = "fanout"
    /\ UNCHANGED <<store, max_depth, pool, driver, job, exc, emitted, ops,
                   admits, resolved>>

\* lines 905-908: no sites, nothing is probed
FanNoSites ==
    /\ pc = "dispatch"
    /\ store.nodes[job].type = t_username
    /\ Sites = {}
    /\ results' = [platforms_found |-> <<>>]
    /\ new_nodes' = <<>>
    /\ last' = [op |-> "resolve", job |-> job, raised |-> FALSE]
    /\ resolved' = Append(resolved, job)
    /\ pc' = "mark"
    /\ UNCHANGED <<store, max_depth, pool, checks, driver, job, exc, emitted,
                   ops, admits>>

\* WorkerStart without the limit of the pool
WorkerStartUncapped ==
    /\ pc = "fanout"
    /\ \E s \in Sites :
          /\ checks[s].state = "submitted"
          /\ checks' = [checks EXCEPT ![s] = Check("running", "none", @.probes + 1)]
    /\ UNCHANGED <<store, pc, max_depth, pool, driver, job, results, new_nodes,
                   exc, emitted, ops, last, admits, resolved>>

\* a worker of ThreadPoolExecutor(max_workers=...) takes a submitted check
\* and sends its request (line 874)
WorkerStart ==
    /\ pc = "fanout"
    /\ Cardinality(Running) < MaxWorkers
    /\ \E s \in Sites :
          /\ checks[s].state = "submitted"
          /\ checks' = [checks EXCEPT ![s] = Check("running", "none", @.probes + 1)]
    /\ UNCHANGED <<store, pc, max_depth, pool, driver, job, results, new_nodes,
                   exc, emitted, ops, last, admits, resolved>>

\* WorkerFinish that submits a failed check once more
WorkerFinishRetries ==
    /\ pc = "fanout"
    /\ \E s \in Sites, outcome \in Outcomes :
          /\ checks[s].state = "running"
          /\ checks' = [checks EXCEPT ![s] =
                          IF outcome = "raised" /\ @.probes < 2
                          THEN Check("submitted", "none", @.probes)
                          ELSE Check("done", outcome, @.probes)]
    /\ UNCHANGED <<store, pc, max_depth, pool, driver, job, results, new_nodes,
                   exc, emitted, ops, last, admits, resolved>>

\* lines 872-889: check_site comes to its end, one way or another
WorkerFinish ==
    /\ pc = "fanout"
    /\ \E s \in Sites, outcome \in Outcomes :
          /\ checks[s].state = "running"
          /\ checks' = [checks EXCEPT ![s] = Check("done", outcome, @.probes)]
    /\ UNCHANGED <<store, pc, max_depth, pool, driver, job, results, new_nodes,
                   exc, emitted, ops, last, admits, resolved>>

\* Collect that gives up the checks not yet collected when one has failed
CollectCancelsOnFailure ==
    /\ pc = "fanout"
    /\ \E s \in Sites :
          /\ checks[s].state = "done"
          /\ LET result == check_site(s, store.nodes[job].value, checks[s].outcome)
             IN  IF result # None
                 THEN /\ checks' = [checks EXCEPT ![s].state = "collected"]
                      /\ results' = [results EXCEPT
                                       !.platforms_found = Append(@, result)]
                      /\ new_nodes' = Append(new_nodes, ProfileNode(result))
                 ELSE /\ checks' = [t \in Sites |->
                                      [checks[t] EXCEPT !.state = "collected"]]
                      /\ UNCHANGED <<results, new_nodes>>
    /\ UNCHANGED <<store, pc, max_depth, pool, driver, job, exc, emitted, ops,
                   last, admits, resolved>>

\* Collect that admits the profile it found itself
CollectAdmits ==
    /\ pc = "fanout"
    /\ \E s \in Sites :
          /\ checks[s].state = "done"
          /\ checks' = [checks EXCEPT ![s].state = "collected"]
          /\ LET result == check_site(s, store.nodes[job].value, checks[s].outcome)
             IN  IF result # None
                 THEN /\ results' = [results EXCEPT
                                       !.platforms_found = Append(@, result)]
                      /\ new_nodes' = Append(new_nodes, ProfileNode(result))
                      /\ store' = add_node(store, t_profile_url, result.url,
                                           JobKey(store, job),
                                           store.nodes[job].depth + 1, 500,
                                           ctx_profile)
                 ELSE UNCHANGED <<results, new_nodes, store>>
    /\ UNCHANGED <<pc, max_depth, pool, driver, job, exc, emitted, ops, last,
                   admits, resolved>>

\* lines 895-904, one turn of `for future in as_completed(futures)`: the
\* result of a finished check is taken and, if there is one, recorded
Collect ==
    /\ pc = "fanout"
    /\ \E s \in Sites :
          /\ checks[s].state = "done"
          /\ checks' = [checks EXCEPT ![s].state = "collected"]
          /\ LET result == check_site(s, store.nodes[job].value, checks[s].outcome)
             IN  IF result # None
                 THEN /\ results' = [results EXCEPT
                                       !.platforms_found = Append(@, result)]
                      /\ new_nodes' = Append(new_nodes, ProfileNode(result))
                 ELSE UNCHANGED <<results, new_nodes>>
    /\ UNCHANGED <<store, pc, max_depth, pool, driver, job, exc, emitted, ops,
                   last, admits, resolved>>

\* line 908: as_completed is exhausted, the executor is shut down and
\* hunt_username returns to start()
FanReturn ==
    /\ pc = "fanout"
    /\ \A s \in Sites : checks[s].state = "collected"
    /\ emitted' = emitted + Len(new_nodes)
    /\ last' = [op |-> "resolve", job |-> job, raised |-> FALSE]
    /\ resolved' = Append(resolved, job)
    /\ pc' = "mark"
    /\ UNCHANGED <<store, max_depth, pool, checks, driver, job, results,
                   new_nodes, exc, ops, admits>>

\* the resolvers of the other types, taken as a whole
HuntOtherReturns ==
    /\ pc = "dispatch"
    /\ store.nodes[job].type # t_username
    /\ ResolverReturns

HuntOtherRaises ==
    /\ pc = "dispatch"
    /\ store.nodes[job].type # t_username
    /\ ResolverRaises

\* HuntProfileUrlNoHunter that uses the missing hunter outside any handler
HuntProfileUrlNoHunterAborts ==
    /\ pc = "dispatch"
    /\ store.nodes[job].type = t_profile_url
    /\ exc' = "AttributeError"
    /\ last' = [op |-> "resolve", job |-> job, raised |-> TRUE]
    /\ resolved' = Append(resolved, job)
    /\ pc' = "finally"
    /\ UNCHANGED <<store, max_depth, pool, checks, driver, job, results,
                   new_nodes, emitted, ops, admits>>

\* lines 910-918: hunt_profile_url without self.hunter returns ({}, []);
\* the hunter is missing when _init_browser was not called, when it returned
\* at once, and when it failed before line 827, with or without self.driver
HuntProfileUrlNoHunter ==
    /\ pc = "dispatch"
    /\ store.nodes[job].type = t_profile_url
    /\ results' = EmptyDict
    /\ new_nodes' = <<>>
    /\ last' = [op |-> "resolve", job |-> job, raised |-> FALSE]
    /\ resolved' = Append(resolved, job)
    /\ pc' = "mark"
    /\ UNCHANGED <<store, max_depth, pool, checks, driver, job, exc, emitted,
                   ops, admits>>

FanNext ==
    \/ Start
    \/ GetNextJob
    \/ SkipDepth
    \/ FanSubmit
    \/ FanNoSites
    \/ WorkerStart
    \/ WorkerFinish
    \/ Collect
    \/ FanReturn
    \/ HuntOtherReturns
    \/ HuntOtherRaises
    \/ HuntProfileUrlNoHunter
    \/ NoResolver
    \/ MarkProcessed
    \/ AddNewNode
    \/ NextIteration
    \/ Interrupt
    \/ Finally

FanSpec == FanInit /\ [][FanNext]_vars

----------------------------------------------------------------------------
(* Properties of the store *)

Nodes == store.nodes

Keys == DOMAIN store.nodes

Queued(s) == {k \in DOMAIN s.nodes : s.nodes[k].status = "queued"}

Accepted(k) == {e \in admits[k] : e.confidence >= 300}

SetMax(S) == CHOOSE m \in S : \A n \in S : n <= m

\* position of key k in the discovery timeline: the order of admission
AdmittedAt(s, k) ==
    CHOOSE i \in 1..Len(s.discovery_timeline) : s.discovery_timeline[i].node = k

LastAccepted ==
    /\ last.op = "add_node"
    /\ last.confidence >= 300

\* C1: at most one node per type and lower-cased, stripped value: each node
\* sits under the key type:lowercase(value), two nodes never agree on type
\* and on the value up to letter case and surrounding whitespace, an accepted
\* admission leaves exactly one node for its type and value, and no key is
\* twice in the queue.
C1_OneNodePerKey ==
    /\ \A k \in Keys : k = Nodes[k].type \o <<":">> \o Lower(Nodes[k].value)
    /\ \A k1, k2 \in Keys :
          (/\ Nodes[k1].type = Nodes[k2].type
           /\ Lower(Strip(Nodes[k1].value)) = Lower(Strip(Nodes[k2].value)))
          => k1 = k2
    /\ LastAccepted =>
          Cardinality({k \in Keys :
              /\ Nodes[k].type = Lower(Strip(last.type))
              /\ Lower(Nodes[k].value) = Lower(Strip(last.value))}) = 1
    /\ NoDup(store.queue)

\* an admission under another letter case and with trailing whitespace was
\* merged into the node the seed's call created
C1_Witness ==
    /\ LastAccepted
    /\ last.value = v_a_x_io_sp
    /\ k_email_a_x_io \in Keys
    /\ Nodes[k_email_a_x_io].value = v_a_x_io
    /\ Len(Nodes[k_email_a_x_io].sources) >= 2

\* C2 as stated: whatever calls were made for a key, one node exists and its
\* sources are the set of all source arguments of those calls, none twice.
C2_SourcesOfAllCalls ==
    \A k \in DOMAIN admits :
        /\ k \in Keys
        /\ Range(Nodes[k].sources) = {e.source : e \in admits[k]}
        /\ NoDup(Nodes[k].sources)

\* C2 amended: the node exists as soon as one call for the key computed a
\* confidence of at least 0.3, and its sources are the source arguments of
\* the calls that did, none twice; calls rejected for low confidence add no
\* source and create no node.
C2_SourcesOfAcceptedCalls ==
    \A k \in DOMAIN admits :
        IF Accepted(k) = {}
        THEN k \notin Keys
        ELSE /\ k \in Keys
             /\ Range(Nodes[k].sources) = {e.source : e \in Accepted(k)}
             /\ NoDup(Nodes[k].sources)

\* a node with two sources, whose key also got a call that was rejected
C2_Witness ==
    \E k \in Keys :
        /\ Len(Nodes[k].sources) >= 2
        /\ admits[k] # Accepted(k)

C3_IsMaximum ==
    \A k \in Keys :
        /\ k \in DOMAIN admits
        /\ Nodes[k].confidence = SetMax({e.confidence : e \in admits[k]})

C3_Step ==
    \A k \in Keys :
        /\ k \in DOMAIN store'.nodes
        /\ store'.nodes[k].confidence >= Nodes[k].confidence

\* C3: the confidence of a key never goes down, and it is the maximum of the
\* confidences computed by the add_node calls for that key.
C3_ConfidenceIsMaximum == [](C3_IsMaximum) /\ [][C3_Step]_vars

\* a merge raised the confidence of a node above the one it was created with,
\* and a later call with a lower confidence left it there
C3_Witness ==
    /\ LastAccepted
    /\ last.key \in Keys
    /\ last.confidence < Nodes[last.key].confidence
    /\ store.discovery_timeline[AdmittedAt(store, last.key)].confidence
          < Nodes[last.key].confidence

C4_Step ==
    /\ \A k \in Keys :
          /\ k \in DOMAIN store'.nodes
          /\ store'.nodes[k].depth = Nodes[k].depth
    /\ \A k \in DOMAIN store'.nodes \ Keys :
          /\ last'.op = "add_node"
          /\ store'.nodes[k].depth = last'.depth

\* C4: a node is created with the depth argument of the call that creates
\* it, and no later call, with a smaller or a larger depth, changes it.
C4_DepthNeverChanges == [][C4_Step]_vars

\* an accepted call for an existing key came with a smaller depth than the
\* one stored, and the stored one stayed
C4_Witness ==
    /\ LastAccepted
    /\ last.key \in Keys
    /\ last.depth < Nodes[last.key].depth

C5_Step ==
    (/\ last'.op = "add_node"
     /\ last'.confidence >= 0
     /\ last'.confidence < 300)
    => /\ store'.nodes = store.nodes
       /\ store'.queue = store.queue
       /\ store'.discovery_timeline = store.discovery_timeline
       /\ store'.connections = store.connections
       /\ store'.processed_count = store.processed_count
       /\ store'.skipped_count = store.skipped_count + 1

\* C5: an add_node call whose confidence is below 0.3 leaves nodes, queue,
\* timeline and connections as they were and adds exactly 1 to skipped_count.
C5_ThresholdLaw == [][C5_Step]_vars

\* a call was rejected for low confidence although a node with its key exists
C5_Witness ==
    /\ last.op = "add_node"
    /\ last.confidence >= 0
    /\ last.confidence < 300
    /\ last.key \in Keys
    /\ store.skipped_count >= 1

C6_Step ==
    last'.op = "get_next_job" =>
        IF Queued(store) = {}
        THEN /\ last'.job = None
             /\ store'.nodes = store.nodes
        ELSE /\ last'.job \in Queued(store)
             /\ \A k \in Queued(store) :
                   Nodes[last'.job].confidence >= Nodes[k].confidence
             /\ store'.nodes[last'.job].status = "processing"
             /\ last'.job \notin Range(store'.queue)
             /\ \A k \in Keys \ {last'.job} : store'.nodes[k] = Nodes[k]

\* C6: get_next_job returns a queued node of the highest confidence among the
\* queued ones, leaves it processing and out of the queue, and returns None
\* only when no node is queued.
C6_PriorityLaw == [][C6_Step]_vars

\* the node returned was admitted after a node of lower confidence that is
\* still queued
C6_Witness ==
    /\ last.op = "get_next_job"
    /\ last.job # None
    /\ \E k \in Queued(store) :
          /\ Nodes[k].confidence < Nodes[last.job].confidence
          /\ AdmittedAt(store, k) < AdmittedAt(store, last.job)

C7_Step ==
    (last'.op = "get_next_job" /\ last'.job # None) =>
        \A k \in Queued(store) :
            Nodes[k].confidence = Nodes[last'.job].confidence
            => AdmittedAt(store, last'.job) <= AdmittedAt(store, k)

\* C7: among the queued nodes of the highest confidence get_next_job returns
\* the one admitted first, whenever their confidences became equal.
C7_EarliestAmongEqual == [][C7_Step]_vars

\* the node returned reached its confidence through a merge, after a node
\* admitted later had been created with that same confidence
C7_Witness ==
    /\ last.op = "get_next_job"
    /\ last.job # None
    /\ store.discovery_timeline[AdmittedAt(store, last.job)].confidence
          < Nodes[last.job].confidence
    /\ \E k \in Queued(store) :
          /\ Nodes[k].confidence = Nodes[last.job].confidence
          /\ AdmittedAt(store, last.job) < AdmittedAt(store, k)

----------------------------------------------------------------------------
(* Properties of the crawl loop *)

\* the node a provenance key (type:value as the controller writes it) names
NodeOf(source_key) == Nodes[Lower(source_key)]

Processed(k) == Nodes[k].status = "processed"

C8_NeverBeyondBound ==
    /\ pc \in {"dispatch", "mark", "fold"} => Nodes[job].depth <= max_depth
    /\ \A i \in 1..Len(resolved) : Nodes[resolved[i]].depth <= max_depth
    /\ \A k \in Keys :
          Nodes[k].depth > max_depth =>
             /\ Nodes[k].status = "processing" => (pc = "skip" /\ job = k)
                                                  \/ pc \in {"finally", "propagated"}
             /\ Processed(k) => Nodes[k].results = SkipResult
    /\ \A i \in 1..Len(store.connections) :
          NodeOf(store.connections[i].from).depth <= max_depth
    /\ \A k \in Keys : \A i \in 1..Len(Nodes[k].sources) :
          Nodes[k].sources[i] # s_initial =>
             NodeOf(Nodes[k].sources[i]).depth <= max_depth

C8_DepthZero ==
    max_depth = 0 =>
       /\ (last.op = "add_node" /\ last.source # s_initial) => last.depth = 1
       /\ \A k \in Keys :
             /\ Nodes[k].depth \in {0, 1}
             /\ Nodes[k].depth = 0 =>
                   /\ Nodes[k].sources[1] = s_initial
                   /\ Nodes[k].results # SkipResult
                   /\ Processed(k) => k \in Range(resolved)
                                      \/ Nodes[k].type \notin ResolverTypes
             /\ Nodes[k].depth = 1 =>
                   /\ k \notin Range(resolved)
                   /\ pc = "returned" =>
                         Processed(k) /\ Nodes[k].results = SkipResult

\* C8 amended: no node deeper than max_depth reaches the routing or a
\* resolver; once selected it is processed with {skipped: max_depth} and is
\* the source of no node and of no connection.  With max_depth = 0 the seed
\* is resolved and every candidate goes to add_node with depth 1; the nodes
\* those calls create are all skip-processed when the run returns.
C8_DepthBound == C8_NeverBeyondBound /\ C8_DepthZero

\* C8 as stated: the depth bound, and with max_depth = 0 every candidate the
\* seed emits has, when the run returns, a node of depth 1 that was
\* skip-processed.
C8_EveryCandidateSkipProcessed ==
    /\ C8_NeverBeyondBound
    /\ (max_depth = 0 /\ pc = "returned") =>
          \A k \in DOMAIN admits : \A e \in admits[k] :
              e.source # s_initial =>
                 /\ k \in Keys
                 /\ Nodes[k].depth = 1
                 /\ Processed(k)
                 /\ Nodes[k].results = SkipResult

\* a run with max_depth = 0 returned: the seed carries its resolver's
\* results, a candidate of depth 1 carries the skip sentinel
C8_Witness ==
    /\ max_depth = 0
    /\ pc = "returned"
    /\ \E k \in Keys : Nodes[k].depth = 0 /\ Nodes[k].results = DataResult
    /\ \E k \in Keys : Nodes[k].depth = 1 /\ Nodes[k].results = SkipResult
    /\ Len(store.connections) >= 1

\* the resolver's exception is caught: nothing of the store changes, the
\* job gets {error: message} and no candidates, no exception is in flight
C9_RaiseStep ==
    (pc = "dispatch" /\ last'.op = "resolve" /\ last'.raised) =>
        /\ pc' = "mark"
        /\ results' = ErrorResult
        /\ new_nodes' = <<>>
        /\ exc' = ""
        /\ store' = store

\* marking the failed job changes that node only
C9_MarkStep ==
    (pc = "mark" /\ results = ErrorResult /\ pc' = "fold") =>
        /\ store'.nodes[job] =
              [Nodes[job] EXCEPT !.status = "processed", !.results = ErrorResult]
        /\ \A k \in Keys \ {job} : store'.nodes[k] = Nodes[k]
        /\ DOMAIN store'.nodes = Keys
        /\ store'.queue = store.queue
        /\ store'.connections = store.connections
        /\ store'.skipped_count = store.skipped_count

\* after a failed job nothing is admitted and the loop is back at its head
C9_FoldStep ==
    (pc = "fold" /\ results = ErrorResult) =>
        /\ new_nodes = <<>>
        /\ store' = store
        /\ pc' = "loop" \/ (pc' = "finally" /\ exc' = "KeyboardInterrupt")

\* a failed job keeps its error result, and a run that returns has
\* processed every node, the ones queued behind a failed job included
C9_Inv ==
    /\ \A k \in Keys :
          (Processed(k) /\ Nodes[k].results = ErrorResult)
             => k \in Range(resolved)
    /\ pc = "returned" => \A k \in Keys : Processed(k)
    /\ exc \in {"", "IndexError", "KeyboardInterrupt"}

\* C9: a resolver that raises costs its own job only: the job is processed
\* with {error: message}, none of its candidates is admitted, no other node
\* changes, and the loop goes on with the rest of the queue.
C9_FailureIsolation ==
    [](C9_Inv) /\ [][C9_RaiseStep /\ C9_MarkStep /\ C9_FoldStep]_vars

\* the run returned; the resolver of one job had raised while another node
\* was queued, and that node was resolved afterwards
C9_Witness ==
    /\ pc = "returned"
    /\ \E i, j \in 1..Len(resolved) :
          /\ i < j
          /\ Nodes[resolved[i]].results = ErrorResult
          /\ Nodes[resolved[j]].results = DataResult
          /\ AdmittedAt(store, resolved[j]) > 1

\* C10: whatever the resolvers return, start() ends by returning: the only
\* exception that may leave the loop is an external interrupt.
C10_RunAlwaysReturns ==
    /\ exc \in {"", "KeyboardInterrupt"}
    /\ pc = "propagated" => exc = "KeyboardInterrupt"

----------------------------------------------------------------------------
(* Candidates and the noise filter *)

\* one '@' and a generic or role token in the local part
GenericAddress(value) == Count("@", value) = 1 /\ ~is_relevant_email(value)

\* the turn of `for node in new_nodes` that handled the head of new_nodes
Folded == pc = "fold" /\ new_nodes # <<>> /\ new_nodes' = Tail(new_nodes)

\* f"{node['type']}:{node['value']}" of the head of new_nodes
HeadKey == Head(new_nodes).type \o <<":">> \o Head(new_nodes).value

\* the connection the controller appends for the head of new_nodes
HeadEdge ==
    [from |-> JobKey(store, job), to |-> HeadKey, type |-> s_discovered]

\* C11: a candidate email with a generic local part and no context (absent
\* or empty) is given 0.5 - 0.3 = 0.2 and rejected by add_node: no node is
\* created, skipped_count goes up by one, and the edge to it is recorded.
C11_GenericWithoutContextRejected ==
    [][(/\ Folded
        /\ Head(new_nodes).type = t_email
        /\ GenericAddress(Head(new_nodes).value)
        /\ ~Truthy(Head(new_nodes).context))
       => /\ last'.confidence = 200
          /\ store'.nodes = store.nodes
          /\ store'.queue = store.queue
          /\ store'.skipped_count = store.skipped_count + 1
          /\ store'.connections = Append(store.connections, HeadEdge)]_vars

\* candidates returned by a resolver and not yet through the for loop
Unfolded == IF pc \in {"mark", "fold"} THEN Len(new_nodes) ELSE 0

\* C12: every candidate a resolved job returned gets exactly one connection
\* (job key, candidate key, "discovered"), whether add_node created, merged
\* or rejected it: unless the run is interrupted, the connections are as many
\* as the candidates returned so far, less the ones still to be folded.
C12_OneConnectionPerCandidate ==
    /\ [](exc # "KeyboardInterrupt" =>
             Len(store.connections) + Unfolded = emitted)
    /\ [][Folded => store'.connections =
                       Append(store.connections, HeadEdge)]_vars

----------------------------------------------------------------------------
(* Selection, status and the frontier *)

Selected(s) == {k \in DOMAIN s.nodes : s.nodes[k].status # "queued"}

\* get_next_job returned a job on this step of the loop
Selects == pc = "loop" /\ pc' \in {"skip", "dispatch"}

C13_Inv ==
    /\ NoDup(resolved)
    /\ \A k \in Selected(store) : k \notin Range(store.queue)
    /\ Range(resolved) \subseteq Selected(store)

C13_Step ==
    /\ Selected(store) \subseteq Selected(store')
    /\ Selects => /\ job' \in Queued(store)
                  /\ job' \notin Range(resolved)

\* C13: a resolver is invoked at most once per node key per run: a key that
\* was selected is never queued or selected again, whether it is
\* rediscovered later or its resolver failed.
C13_ResolvedAtMostOnce == [](C13_Inv) /\ [][C13_Step]_vars

\* the run returned; a key whose resolver had failed was rediscovered by a
\* job resolved after it
C13_Witness ==
    /\ pc = "returned"
    /\ \E i, j \in 1..Len(resolved) :
          /\ i < j
          /\ Nodes[resolved[i]].results = ErrorResult
          /\ JobKey(store, resolved[j]) \in Range(Nodes[resolved[i]].sources)

\* how far a run without candidates has come
SilentRank ==
    CASE pc = "start" -> 0
      [] pc = "loop" /\ store.processed_count = 0 -> 1
      [] pc \in {"skip", "dispatch"} -> 2
      [] pc = "mark" -> 3
      [] pc = "fold" -> 4
      [] pc = "loop" /\ store.processed_count > 0 -> 5
      [] pc = "finally" -> 6
      [] OTHER -> 7

C14_Inv ==
    emitted = 0 =>
       /\ Cardinality(Keys) <= 1
       /\ Cardinality(Selected(store)) <= 1
       /\ store.processed_count <= 1
       /\ store.connections = <<>>
       /\ pc \notin {"returned", "propagated"} => ENABLED Next
       /\ (pc = "loop" /\ store.processed_count = 1) =>
             get_next_job(store).job = None
       /\ pc = "returned" =>
             /\ store.processed_count = 1
             /\ Cardinality(Keys) = 1
             /\ \A k \in Keys : Processed(k) /\ Nodes[k].sources = <<s_initial>>

\* C14: when no resolver returns a candidate the run ends after selecting
\* and processing exactly one job, the seed: every step takes the run
\* forward, get_next_job finds nothing after the seed, and at the return
\* processed_count = 1, one node was discovered and there is no connection.
C14_SilentRunProcessesSeedOnly ==
    [](C14_Inv) /\ [][emitted' = 0 => SilentRank' > SilentRank]_vars

\* a run returned whose only resolver call came back without candidates
C14_Witness ==
    /\ pc = "returned"
    /\ emitted = 0
    /\ Len(resolved) = 1
    /\ store.processed_count = 1
    /\ Nodes[resolved[1]].results = DataResult

----------------------------------------------------------------------------
(* The seed and what its resolver finds *)

SeedKeys == {k \in Keys : Nodes[k].sources[1] = s_initial}

HasVerified(context) == "verified" \in DOMAIN context /\ context.verified

\* the seed: one node, depth 0, confidence 1.0, first source "initial",
\* processed when the run returns
C15_SeedInv ==
    /\ pc # "start" => Cardinality(SeedKeys) = 1
    /\ \A k \in Keys : Nodes[k].depth = 0 <=> k \in SeedKeys
    /\ \A k \in SeedKeys : Nodes[k].confidence = 1000
    /\ pc = "returned" => \A k \in SeedKeys : Processed(k)

\* the first job selected is the seed; nodes stay and lose no confidence
C15_SeedStep ==
    /\ (Selects /\ Selected(store) = {}) => job' \in SeedKeys
    /\ \A k \in Keys : /\ k \in DOMAIN store'.nodes
                       /\ store'.nodes[k].confidence >= Nodes[k].confidence

\* the head of new_nodes, returned by the seed's resolver, is now a node of
\* confidence >= 0.5 with a connection from the seed to it (the two ends as
\* the controller writes them, type:value, the node keys up to letter case)
HeadAdmittedFromSeed ==
    LET k == AdmitKey(Head(new_nodes).type, Head(new_nodes).value)
    IN  /\ k \in DOMAIN store'.nodes
        /\ store'.nodes[k].confidence >= 500
        /\ store'.connections = Append(store.connections, HeadEdge)
        /\ Lower(HeadEdge.from) = job
        /\ Lower(HeadEdge.to) = k

\* the seed's resolver returned an email with a verified context and the
\* for loop handled it
FoldsVerifiedEmailOfSeed ==
    /\ Folded
    /\ job \in SeedKeys
    /\ Head(new_nodes).type = t_email
    /\ HasVerified(Head(new_nodes).context)

StatusRank(status) ==
    CASE status = "queued" -> 0
      [] status = "processing" -> 1
      [] status = "processed" -> 2

C16_Step ==
    /\ \A k \in Keys :
          /\ k \in DOMAIN store'.nodes
          /\ StatusRank(store'.nodes[k].status) >= StatusRank(Nodes[k].status)
    /\ \A k \in DOMAIN store'.nodes \ Keys : store'.nodes[k].status = "queued"

\* C16: the status of a node only moves forward, queued -> processing ->
\* processed: add_node (merge included), get_next_job and mark_processed
\* never take a processing or processed node back to queued, nor a
\* processed node back to processing.
C16_StatusMovesForward ==
    /\ [](\A k \in Keys : Nodes[k].status \in {"queued", "processing", "processed"})
    /\ [][C16_Step]_vars

\* add_node merged a new source into a node that is processed
C16_Witness ==
    /\ last.op = "add_node"
    /\ last.confidence >= 300
    /\ last.key \in Keys
    /\ Processed(last.key)
    /\ Len(Nodes[last.key].sources) >= 2
    /\ Nodes[last.key].sources[Len(Nodes[last.key].sources)] = last.source

Processing(s) == {k \in DOMAIN s.nodes : s.nodes[k].status = "processing"}

C17_Inv ==
    /\ Cardinality(Processing(store)) <= 1
    /\ pc \in {"skip", "dispatch", "mark"} => Processing(store) = {job}
    /\ pc \in {"loop", "fold", "returned"} => Processing(store) = {}
    /\ pc = "fold" => Processed(job)

\* a job is selected when the one before it is processed and nothing it
\* returned is left to admit or to connect
C17_Step ==
    Selects =>
       /\ Processing(store) = {}
       /\ job # None => Processed(job)
       /\ new_nodes = <<>>
       /\ Len(store.connections) = emitted
       /\ Processing(store') = {job'}

\* C17: in every state of a run at most one node has status processing, and
\* the next job is selected only after the previous job was marked
\* processed and all its candidates were admitted and connected.
C17_OneJobAtATime == [](C17_Inv) /\ [][C17_Step]_vars

\* the second job of a run is with its resolver: it alone is processing,
\* the seed is processed, its candidates are connected, one is still queued
C17_Witness ==
    /\ pc = "dispatch"
    /\ Processing(store) = {job}
    /\ job \notin SeedKeys
    /\ \A k \in SeedKeys : Processed(k)
    /\ Queued(store) # {}
    /\ Len(store.connections) >= 2

\* C18: frontier consistency: in every state of a run the queue holds
\* exactly the keys of the nodes with status queued, each of them once.
C18_QueueIsTheQueuedKeys ==
    /\ Range(store.queue) = Queued(store)
    /\ NoDup(store.queue)

\* two nodes are processed, and a key still in the queue was found a second
\* time, by another job, without being queued twice
C18_Witness ==
    /\ Cardinality({k \in Keys : Processed(k)}) >= 2
    /\ \E k \in Queued(store) :
          /\ Len(Nodes[k].sources) >= 2
          /\ Count(k, store.queue) = 1

----------------------------------------------------------------------------
(* The end of a run *)

\* C19: on every way out of the crawl loop (the queue is empty, an
\* exception escapes the loop, an interrupt arrives) the browser session is
\* released before start() returns or propagates: a driver that was open is
\* quit, whatever ended the loop.
C19_BrowserReleased ==
    /\ [](pc \in {"returned", "propagated"} => driver \in {"none", "quit"})
    /\ [][(pc = "finally" /\ pc' # "finally") =>
             /\ driver = "open" => driver' = "quit"
             /\ pc' = IF exc = "" THEN "returned" ELSE "propagated"
             /\ exc' = exc]_vars

\* an exception other than an interrupt went out of start() and the browser
\* that was open is quit
C19_Witness ==
    /\ pc = "propagated"
    /\ exc = "IndexError"
    /\ driver = "quit"

\* C20: an interrupt during the loop unwinds the run, the held browser is
\* released, and start() returns the partial graph and statistics to its
\* caller: an interrupted run ends as returned, never as propagated.
C20_InterruptReturnsPartial ==
    exc = "KeyboardInterrupt" =>
       /\ pc \in {"finally", "returned"}
       /\ pc = "returned" => driver \in {"none", "quit"}

----------------------------------------------------------------------------
(* The fan-out of hunt_username *)

\* the sites whose own check found a profile, of those taken so far
Succeeded(states) ==
    {s \in Sites : checks[s].state \in states /\ checks[s].outcome = "found"}

\* hunt_username is collecting, or has returned and its job is not marked yet
Hunting ==
    pc = "fanout" \/ (pc = "mark" /\ "platforms_found" \in DOMAIN results)

C21_Inv ==
    /\ Hunting =>
          /\ {results.platforms_found[i] : i \in 1..Len(results.platforms_found)}
                = {check_site(s, Nodes[job].value, "found") :
                      s \in Succeeded({"collected"})}
          /\ Range(new_nodes)
                = {ProfileNode(check_site(s, Nodes[job].value, "found")) :
                      s \in Succeeded({"collected"})}
          /\ Len(results.platforms_found) = Cardinality(Succeeded({"collected"}))
          /\ Len(new_nodes) = Cardinality(Succeeded({"collected"}))
    /\ (pc = "mark" /\ "platforms_found" \in DOMAIN results) =>
          \A s \in Sites : /\ checks[s].state = "collected"
                           /\ checks[s].outcome \in Outcomes

\* a check that ends leaves the other checks as they are
C21_Step ==
    \A s \in Sites :
       (pc = "fanout" /\ checks[s].state = "running" /\ checks'[s].state = "done")
          => \A t \in Sites \ {s} : checks'[t] = checks[t]

\* C21: in hunt_username a check that times out, fails to connect or gets an
\* unexpected answer adds nothing and cancels no other check: in whatever
\* order the workers run and finish, the platforms found and the candidates
\* returned are those of the sites whose own check succeeded, each once.
C21_FanOutIndependence == [](C21_Inv) /\ [][C21_Step]_vars

\* hunt_username has returned: one check raised, two found a profile, and
\* the results are not in the order of the sites
C21_Witness ==
    /\ pc = "mark"
    /\ "platforms_found" \in DOMAIN results
    /\ \E s \in Sites : checks[s].outcome = "raised"
    /\ \E s, t \in Sites :
          /\ s < t
          /\ results.platforms_found =
                <<check_site(t, Nodes[job].value, "found"),
                  check_site(s, Nodes[job].value, "found")>>

C22_Inv ==
    /\ Cardinality(Running) <= MaxWorkers
    /\ pc # "fanout" =>
          \A s \in Sites : checks[s].state \in {"idle", "collected"}

C22_Step ==
    (pc = "fanout" /\ pc' # "fanout") =>
        /\ pc' = "mark"
        /\ \A s \in Sites : checks[s].state = "collected" /\ checks[s].probes = 1
        /\ checks' = checks

\* C22: during a fan-out no more checks run at the same time than the
\* executor has workers, and hunt_username returns to the controller only
\* when every check it submitted has completed or failed.
C22_WorkerCap == [](C22_Inv) /\ [][C22_Step]_vars

\* every worker is busy and a submitted check waits for one
C22_Witness ==
    /\ pc = "fanout"
    /\ Cardinality(Running) = MaxWorkers
    /\ \E s \in Sites : checks[s].state = "submitted"

\* the store and what is observed of it
StoreFrame == store' = store /\ admits' = admits

C23_Step ==
    /\ pc \in {"dispatch", "fanout"} => StoreFrame
    /\ store' # store => /\ pc \in {"start", "loop", "skip", "mark", "fold"}
                         /\ checks' = checks
                         /\ Running = {}

\* C23: the workers of a fan-out never write the store: from the moment a
\* job is handed to its resolver until the resolver has returned, nodes,
\* queue, connections and counters stay as they are, and every change of
\* the store is made by the controller, outside a resolver invocation.
C23_ResolversLeaveStoreAlone == [][C23_Step]_vars

\* the controller has folded the two profiles a fan-out found: they are
\* nodes found by the job, connected to it
C23_Witness ==
    /\ pc = "fold"
    /\ new_nodes = <<>>
    /\ "platforms_found" \in DOMAIN Nodes[job].results
    /\ Len(Nodes[job].results.platforms_found) = 2
    /\ Cardinality({k \in Keys : Nodes[k].type = t_profile_url
                                 /\ Nodes[k].sources = <<JobKey(store, job)>>}) = 2
    /\ Len(store.connections) = 2

C24_Inv ==
    /\ \A s \in Sites :
          /\ checks[s].probes <= 1
          /\ checks[s].state \in {"idle", "submitted"} <=> checks[s].probes = 0
    /\ NoDup(resolved)
    /\ \A k \in Keys :
          (Processed(k) /\ Nodes[k].results = ErrorResult) =>
             Count(k, resolved) = 1

C24_Step ==
    /\ \A s \in Sites :
          checks[s].state \in {"done", "collected"} =>
             /\ checks'[s].probes = checks[s].probes
             /\ checks'[s].outcome = checks[s].outcome
             /\ checks'[s].state \in {"done", "collected"}
    /\ \A k \in Keys :
          Processed(k) => store'.nodes[k].status = "processed"
                          /\ store'.nodes[k].results = Nodes[k].results

\* C24: nothing is retried: within one resolver invocation each site is
\* probed exactly once, a check that failed is not run again, and a job
\* whose resolver failed is not handed to a resolver again.
C24_NoRetry == [](C24_Inv) /\ [][C24_Step]_vars

\* a fan-out is over in which one check raised and one found nothing, each
\* site probed once
C24_Witness ==
    /\ pc = "mark"
    /\ "platforms_found" \in DOMAIN results
    /\ \E s \in Sites : checks[s].outcome = "raised"
    /\ \E s \in Sites : checks[s].outcome = "not_found"
    /\ \A s \in Sites : checks[s].probes = 1

----------------------------------------------------------------------------
(* What a run delivers *)

\* C25: get_high_value_nodes returns exactly the nodes that are processed,
\* have confidence >= 0.5 and have results that are not empty; processed
\* nodes with empty results and nodes below 0.5 stay in the store and are
\* counted by get_statistics, but are not in the mapping returned.
C25_HighValueNodes ==
    LET high == get_high_value_nodes(store)
        statistics == get_statistics(store)
        left_out == {k \in Keys : Processed(k)} \ DOMAIN high
    IN  /\ DOMAIN high = {k \in Keys : /\ Processed(k)
                                       /\ Nodes[k].confidence >= 500
                                       /\ Nodes[k].results # EmptyDict}
        /\ \A k \in DOMAIN high : high[k] = Nodes[k]
        /\ \A k \in left_out :
              Nodes[k].confidence < 500 \/ Nodes[k].results = EmptyDict
        /\ statistics.total_discovered = Cardinality(Keys)
        /\ statistics.processed = Cardinality({k \in Keys : Processed(k)})
        /\ \A k \in left_out :
              /\ Nodes[k].type \in DOMAIN statistics.nodes_by_type
              /\ statistics.nodes_by_type[Nodes[k].type]
                    > Cardinality({j \in DOMAIN high :
                                      Nodes[j].type = Nodes[k].type})

\* the run returned: a node below 0.5 with results and a node at or above
\* 0.5 with empty results are processed and left out, another is delivered
C25_Witness ==
    /\ pc = "returned"
    /\ \E k \in Keys : /\ Processed(k)
                       /\ Nodes[k].confidence = 399
                       /\ Nodes[k].results = DataResult
    /\ \E k \in Keys : /\ Processed(k)
                       /\ Nodes[k].confidence >= 500
                       /\ Nodes[k].results = EmptyDict
    /\ DOMAIN get_high_value_nodes(store) # {}
    /\ get_statistics(store).processed = 3

----------------------------------------------------------------------------
(* The order of the traversal *)

DepthOf(k) == Nodes[k].depth

\* C26 as stated: the traversal is breadth-first: jobs are handed to their
\* resolvers in non-decreasing depth order, and no node is resolved while a
\* node of smaller depth is still queued.
C26_BreadthFirst ==
    /\ \A i, j \in 1..Len(resolved) :
          i < j => DepthOf(resolved[i]) <= DepthOf(resolved[j])
    /\ pc = "dispatch" => \A k \in Queued(store) : DepthOf(k) >= DepthOf(job)

\* C26 amended: the traversal is best-first by confidence: every job
\* selected has the highest confidence of the queued nodes whatever its
\* depth, the seed (depth 0) is the first, and every node handed to a
\* resolver has a depth of at most max_depth.
C26_BestFirst ==
    /\ [](/\ resolved # <<>> => resolved[1] \in SeedKeys
          /\ \A i \in 1..Len(resolved) : DepthOf(resolved[i]) <= max_depth)
    /\ [][Selects =>
            /\ job' \in Queued(store)
            /\ \A k \in Queued(store) :
                  Nodes[k].confidence <= Nodes[job'].confidence]_vars

\* a node of depth 2 is with its resolver while a node of depth 1, of lower
\* confidence, is still queued
C26_Witness ==
    /\ pc = "dispatch"
    /\ DepthOf(job) = 2
    /\ \E k \in Queued(store) :
          /\ DepthOf(k) = 1
          /\ Nodes[k].confidence < Nodes[job].confidence

\* the keys within n discoveries of the seed; a discovery is a job emitting
\* a candidate, which start() records as a connection
RECURSIVE Within(_)
Within(n) ==
    IF n = 0 THEN SeedKeys
    ELSE LET near == Within(n - 1)
         IN  near \cup {Lower(store.connections[i].to) :
                           i \in {j \in 1..Len(store.connections) :
                                     Lower(store.connections[j].from) \in near}}

\* the length of the shortest chain of discoveries from the seed to k
Distance(k) ==
    CHOOSE n \in 0..Len(store.connections) :
        /\ k \in Within(n)
        /\ n > 0 => k \notin Within(n - 1)

\* C27 as stated: when the run has returned, the depth of every node is its
\* distance from the seed, the length of the shortest chain of discoveries
\* leading to it.
C27_DepthIsDistance ==
    pc = "returned" => \A k \in Keys : DepthOf(k) = Distance(k)

\* C27 amended: the depth of a node is that of the job that created it plus
\* one, the seed's is 0; it is the length of one chain of discoveries from
\* the seed and so at least the distance, and it stays when a shorter chain
\* turns up.
C27_DepthOfFirstDiscovery ==
    /\ \A k \in SeedKeys : DepthOf(k) = 0
    /\ \A k \in Keys \ SeedKeys :
          DepthOf(k) = DepthOf(Lower(Nodes[k].sources[1])) + 1
    /\ pc = "returned" => \A k \in Keys : DepthOf(k) >= Distance(k)

\* the run returned with a node of depth 2 that the seed itself had
\* emitted: the seed's candidate was rejected, a later job's was admitted
C27_Witness ==
    /\ pc = "returned"
    /\ \E k \in Keys : DepthOf(k) = 2 /\ Distance(k) = 1

----------------------------------------------------------------------------
(* Provenance *)

\* C28: provenance entries are node keys: every entry of a node's sources
\* other than "initial" and the from-key of every connection is the key of
\* a node in the store, and the to-key of a connection to an admitted
\* candidate is that candidate's node key, also when the value of the job
\* or of the candidate has upper-case letters.
C28_ProvenanceIsKeys ==
    /\ \A k \in Keys : \A i \in 1..Len(Nodes[k].sources) :
          Nodes[k].sources[i] = s_initial \/ Nodes[k].sources[i] \in Keys
    /\ \A i \in 1..Len(store.connections) :
          /\ store.connections[i].from \in Keys
          /\ Lower(store.connections[i].to) \in Keys =>
                store.connections[i].to \in Keys


----------------------------------------------------------------------------
(* RelevanceFilter.calculate_confidence and the threshold of add_node,
   one candidate at a time on a store just constructed *)

v_123               == <<"1","2","3">>
v_ab                == <<"a","b">>
v_localhost         == <<"l","o","c","a","l","h","o","s","t">>
v_dot_x_io          == <<".","x",".","i","o">>
v_cdn_cloudflare_com ==
    <<"c","d","n",".","c","l","o","u","d","f","l","a","r","e",".","c","o","m">>

\* a context naming the target domain, on a value found in a profile
ctx_target == [target_domain |-> v_x_io, source_type |-> "profile"]
\* every flag calculate_confidence reads, all set
ctx_all_flags ==
    [target_domain |-> v_x_io, source_type |-> "profile", verified |-> TRUE,
     from_bio |-> TRUE, is_personal_site |-> TRUE, verified_profile |-> TRUE]

FilterTypes == {t_email, t_username, t_domain, t_person, t_ip}

FilterValues ==
    {v_a_x_io, v_admin_x_io, v_ax_io, v_ann, v_Ann, v_api, v_123, v_ab,
     v_x_io, v_localhost, v_dot_x_io, v_cdn_cloudflare_com}

FilterContexts ==
    {EmptyDict, ctx_profile, ctx_bio, ctx_site, ctx_from_email, ctx_verified,
     ctx_source_profile, ctx_generated, ctx_target, ctx_all_flags}

\* what calculate_confidence returns, -1 when it raises
Score(entity_type, entity_value, context) ==
    IF calculate_confidence_raises(entity_type, entity_value, context)
    THEN -1
    ELSE calculate_confidence(entity_type, entity_value, context)

FilterInit ==
    /\ store = EmptyStore
    /\ pc = "filter"
    /\ max_depth = 0
    /\ pool = {}
    /\ checks = EmptyDict
    /\ driver = "none"
    /\ job = None
    /\ results = EmptyDict
    /\ new_nodes = <<>>
    /\ exc = ""
    /\ emitted = 0
    /\ ops = 0
    /\ last = NoCall
    /\ admits = EmptyDict
    /\ resolved = <<>>

\* add_node(type, value, source, depth=1, confidence=0.5, context=context),
\* as the controller calls it for a candidate
FilterAddNode ==
    /\ pc = "filter" /\ ops = 0
    /\ \E type \in FilterTypes, value \in FilterValues,
          context \in FilterContexts :
          LET seen == ObserveAddNode(type, value, k_username_Ann, 1, 500,
                                     context)
          IN  /\ store' = IF seen.raised THEN store
                          ELSE add_node(store, type, value, k_username_Ann,
                                        1, 500, context)
              /\ last' = [score |-> Score(type, value, context)] @@ seen
              /\ admits' = RecordAdmit(admits, seen)
    /\ ops' = ops + 1
    /\ UNCHANGED job
    /\ ApiFrame

FilterNext == FilterAddNode

FilterSpec == FilterInit /\ [][FilterNext]_vars

----------------------------------------------------------------------------
(* Range of the confidence *)

Scored == last.op = "add_node" /\ last.score >= 0

\* C29: every confidence stored on a node lies in [0.0, 1.0] and is at least
\* 0.3; calculate_confidence returns nothing above 1.0 nor below 0.0, and an
\* email that matches the target domain and comes from a profile scores 1.0
C29_ConfidenceRange ==
    /\ Scored => last.score \in 0..1000
    /\ Scored /\ last.type = t_email /\ is_relevant_email(last.value)
          /\ last.context \in {ctx_target, ctx_all_flags} => last.score = 1000
    /\ \A k \in Keys : Nodes[k].confidence \in 300..1000

C29_Witness ==
    /\ Scored
    /\ last.type = t_email /\ last.value = v_a_x_io
    /\ last.context = ctx_target
    /\ last.score = 1000
    /\ k_email_a_x_io \in Keys
    /\ Nodes[k_email_a_x_io].confidence = 1000

----------------------------------------------------------------------------
(* Noise *)

Noise ==
    /\ last.op = "add_node"
    /\ \/ last.type = t_username /\ ~is_relevant_username(last.value)
       \/ last.type = t_domain /\ ~is_relevant_domain(last.value)

\* C30: for a username that fails is_relevant_username and a domain that
\* fails is_relevant_domain, calculate_confidence returns 0.1 under every
\* context, and add_node called with a context that holds anything rejects
\* the candidate: no node, skipped_count one higher
C30_NoiseScoresOneTenth ==
    Noise =>
       /\ last.score = 100
       /\ Truthy(last.context) =>
             /\ Keys = {}
             /\ store.skipped_count = 1
             /\ store.queue = <<>>

C30_Witness ==
    /\ Noise
    /\ last.type = t_domain /\ last.value = v_cdn_cloudflare_com
    /\ last.context = ctx_all_flags
    /\ last.score = 100
    /\ Keys = {}
    /\ store.skipped_count = 1


----------------------------------------------------------------------------
(* A run without a browser session *)

NoBrowser == driver = "none"

ProfileJob == job # None /\ job \in Keys /\ Nodes[job].type = t_profile_url

\* without a session the run ends by its return or by an interrupt from
\* outside, and when it has returned every node is processed: a profile_url
\* node within the depth bound was handed to hunt_profile_url and holds the
\* empty result, every node of another type within the bound that has a
\* resolver was handed to it
C31_Inv ==
    NoBrowser =>
       /\ exc \in {"", "KeyboardInterrupt"}
       /\ pc = "returned" =>
             \A k \in Keys :
                /\ Nodes[k].status = "processed"
                /\ ~BeyondDepth(Nodes[k].depth, max_depth) =>
                      /\ Nodes[k].type \in ResolverTypes =>
                            k \in Range(resolved)
                      /\ Nodes[k].type = t_profile_url =>
                            Nodes[k].results = EmptyDict
                /\ BeyondDepth(Nodes[k].depth, max_depth) =>
                      Nodes[k].results = SkipResult

\* a profile_url job dispatched without a session comes back with the empty
\* result and no candidates, is marked processed with it, and nothing is
\* folded after it
C31_Step ==
    NoBrowser /\ ProfileJob =>
       /\ pc = "dispatch" /\ pc' # "finally" =>
             /\ pc' = "mark"
             /\ results' = EmptyDict
             /\ new_nodes' = <<>>
       /\ pc = "mark" /\ pc' # "finally" =>
             /\ pc' = "fold"
             /\ Nodes'[job].status = "processed"
             /\ Nodes'[job].results = EmptyDict
             /\ new_nodes' = <<>>
       /\ pc = "fold" /\ pc' # "finally" =>
             /\ pc' = "loop"
             /\ store' = store

\* C31: when the browser session cannot be obtained the run is not aborted:
\* every profile_url job is still selected and marked processed, with an
\* empty result and no candidates, and the other jobs are resolved as usual
C31_RunsWithoutBrowser == [](C31_Inv) /\ [][C31_Step]_vars

C31_Witness ==
    /\ NoBrowser
    /\ pc = "returned"
    /\ \E k \in Keys :
          /\ Nodes[k].type = t_profile_url
          /\ Nodes[k].status = "processed"
          /\ Nodes[k].results = EmptyDict
          /\ k \in Range(resolved)
    /\ \E k \in Keys :
          /\ Nodes[k].type = t_username
          /\ Len(Nodes[k].results.platforms_found) > 0


----------------------------------------------------------------------------
(* From the selection to the mark *)

\* the keys that take the status st on this step
Becomes(st) ==
    {k \in DOMAIN store'.nodes :
        /\ store'.nodes[k].status = st
        /\ k \notin Keys \/ Nodes[k].status # st}

\* a node becomes processing only as the job get_next_job returns, and it
\* was queued; a node becomes processed only by mark_processed, applied by
\* the loop to the job it holds, which is processing
C32_Step ==
    /\ \A k \in Becomes("processing") :
          /\ k \in Keys /\ Nodes[k].status = "queued"
          /\ Selects
          /\ last'.op = "get_next_job" /\ last'.job = k
          /\ job' = k
    /\ \A k \in Becomes("processed") :
          /\ k \in Keys /\ Nodes[k].status = "processing"
          /\ pc \in {"skip", "mark"}
          /\ last'.op = "mark_processed" /\ Lower(last'.key) = k
          /\ job = k
    /\ pc \in {"skip", "mark"} /\ pc' \in {"loop", "fold"} =>
          Becomes("processed") = {job}

\* C32: every processed node was, at an earlier point of the run, returned
\* by get_next_job while it was queued: mark_processed is only ever applied
\* to the node that is processing
C32_ProcessedWasSelected == [][C32_Step]_vars

\* both ways to the mark were taken: a job marked with what its resolver
\* returned and a job marked as skipped for its depth
C32_Witness ==
    /\ pc = "loop"
    /\ last.op = "mark_processed"
    /\ last.results = SkipResult
    /\ Processed(Lower(last.key))
    /\ \E k \in Keys : Processed(k) /\ Nodes[k].results = DataResult


----------------------------------------------------------------------------
(* The frame of a merge *)

\* q is p or p with one more element at its end
ExtendsByOne(p, q) ==
    \/ q = p
    \/ Len(q) = Len(p) + 1 /\ SubSeq(q, 1, Len(p)) = p

\* add_node is called on this step for a key the store holds
MergeCall ==
    /\ last'.op = "add_node"
    /\ ~last'.ignored /\ ~last'.raised
    /\ last'.key \in Keys
    /\ pc \in {"api", "fold"}

C33_Step ==
    MergeCall =>
       LET k == last'.key
       IN  /\ DOMAIN store'.nodes = Keys
           /\ store'.nodes[k].status = Nodes[k].status
           /\ store'.nodes[k].depth = Nodes[k].depth
           /\ store'.nodes[k].value = Nodes[k].value
           /\ store'.nodes[k].type = Nodes[k].type
           /\ store'.nodes[k].results = Nodes[k].results
           /\ store'.nodes[k].confidence >= Nodes[k].confidence
           /\ ExtendsByOne(Nodes[k].sources, store'.nodes[k].sources)
           /\ \A j \in Keys \ {k} : store'.nodes[j] = Nodes[j]
           /\ store'.queue = store.queue
           /\ store'.discovery_timeline = store.discovery_timeline
           /\ store'.processed_count = store.processed_count

\* C33: an add_node call for a key that already exists leaves the node's
\* status, depth, value and results unchanged, does not change the frontier
\* and appends no timeline record; only confidence (upward) and sources
\* may change
C33_MergeFrame == [][C33_Step]_vars

\* a node that is processing took a second source from a call that gave
\* the value in another letter case and another depth
C33_Witness ==
    /\ last.op = "add_node"
    /\ last.confidence >= 300
    /\ last.key \in Keys
    /\ Nodes[last.key].status = "processing"
    /\ Len(Nodes[last.key].sources) = 2
    /\ Nodes[last.key].sources[2] = last.source
    /\ Nodes[last.key].value # NormValue(last.value)
    /\ Nodes[last.key].depth # last.depth
    /\ Len(store.discovery_timeline) = 1


----------------------------------------------------------------------------
(* A processed node *)

C34_Step ==
    /\ \A k \in Keys :
          Processed(k) =>
             /\ k \in DOMAIN store'.nodes
             /\ store'.nodes[k].status = "processed"
             /\ store'.nodes[k].depth = Nodes[k].depth
             /\ store'.nodes[k].results = Nodes[k].results
             /\ store'.nodes[k].confidence >= Nodes[k].confidence
             /\ ExtendsByOne(Nodes[k].sources, store'.nodes[k].sources)
    /\ pc \in {"skip", "mark"} /\ pc' \in {"loop", "fold"} =>
          /\ ~Processed(Lower(last'.key))
          /\ store'.processed_count = store.processed_count + 1

\* C34: once a node is processed its status, depth and results never change
\* for the rest of the run, mark_processed being applied to each key at most
\* once; only its sources and its confidence may still change, by merges
C34_ProcessedIsFinal ==
    /\ [](store.processed_count = Cardinality({k \in Keys : Processed(k)}))
    /\ [][C34_Step]_vars

\* a node admitted at 0.5 was processed and then found again, by its own
\* job, with a context worth 0.7: confidence and sources changed, the
\* results it was marked with stayed
C34_Witness ==
    /\ last.op = "add_node"
    /\ last.key \in Keys
    /\ Processed(last.key)
    /\ last.confidence = 700
    /\ Nodes[last.key].confidence = 700
    /\ Nodes[last.key].results = DataResult
    /\ Len(Nodes[last.key].sources) = 2
    /\ \E i \in 1..Len(store.discovery_timeline) :
          /\ store.discovery_timeline[i].node = last.key
          /\ store.discovery_timeline[i].confidence = 500


----------------------------------------------------------------------------
(* Termination *)

Ended == pc \in {"returned", "propagated"}

\* C35: for every finite set of candidates the resolvers can emit, resolvers
\* that rediscover each other in cycles included, the run terminates, and
\* the number of job selections is at most the number of distinct keys
\* admitted
C35_Terminates ==
    /\ [](ops <= Cardinality(Keys))
    /\ <>Ended

\* the run returned after a cycle: the seed found a second username, whose
\* job found the seed again; both were selected once
C35_Witness ==
    /\ pc = "returned"
    /\ ops = 2
    /\ Cardinality(Keys) = 2
    /\ Len(resolved) = 2
    /\ \E i \in 1..Len(store.connections) :
          /\ Lower(store.connections[i].from) = resolved[2]
          /\ Lower(store.connections[i].to) = resolved[1]
    /\ \E i \in 1..Len(store.connections) :
          /\ Lower(store.connections[i].from) = resolved[1]
          /\ Lower(store.connections[i].to) = resolved[2]


----------------------------------------------------------------------------
(* Statistics *)

\* the sum of the values of a dict of counts
RECURSIVE SumCounts(_)
SumCounts(f) ==
    IF DOMAIN f = {} THEN 0
    ELSE LET t == CHOOSE x \in DOMAIN f : TRUE
         IN  f[t] + SumCounts([x \in DOMAIN f \ {t} |-> f[x]])

BetweenJobs == pc \in {"loop", "returned"}

\* add_node was called on this step and turned the entity down for its
\* confidence
Rejects ==
    /\ last'.op = "add_node"
    /\ store' # store
    /\ last'.confidence >= 0 /\ TooLow(last'.confidence)

C36_Inv ==
    BetweenJobs =>
       LET st == get_statistics(store)
       IN  /\ st.processed = Cardinality({k \in Keys : Processed(k)})
           /\ st.processed = SumCounts(st.nodes_by_type)
           /\ st.total_discovered = Cardinality(Keys)
           /\ st.connections = Len(store.connections)
           /\ st.skipped_low_confidence = store.skipped_count

C36_Step ==
    store'.skipped_count = store.skipped_count + (IF Rejects THEN 1 ELSE 0)

\* C36: statistics agree with the store in every state between jobs:
\* processed is the number of processed nodes and the sum of the counts by
\* type, total_discovered the number of nodes, connections the length of the
\* connection log, and skipped_low_confidence (0 at the start) goes up by
\* one with every add_node call rejected for a confidence below 0.3 and
\* with nothing else
C36_StatisticsAgree ==
    /\ [](C36_Inv)
    /\ [](pc = "start" => store.skipped_count = 0)
    /\ [][C36_Step]_vars

\* between two jobs: two nodes processed, one still queued, one candidate
\* rejected
C36_Witness ==
    /\ pc = "loop"
    /\ get_statistics(store).processed = 2
    /\ get_statistics(store).total_discovered = 3
    /\ get_statistics(store).skipped_low_confidence = 1
    /\ get_statistics(store).connections = 3
    /\ SumCounts(get_statistics(store).nodes_by_type) = 2


----------------------------------------------------------------------------
(* mark_processed and a key the store does not hold *)

\* mark_processed is called on this step with a key that, lower-cased, names
\* no node
MarksUnknown ==
    /\ pc = "api"
    /\ last'.op = "mark_processed"
    /\ Lower(last'.key) \notin Keys

C37_Step == MarksUnknown => store' = store

\* C37: mark_processed with a key that is not in the store is a no-op: no
\* node is created or changed and processed_count is not incremented
C37_UnknownKeyIsNoOp == [][C37_Step]_vars

\* a node was marked, then a key the store never held: the count is still 1
\* and the node that is left is still queued
C37_Witness ==
    /\ last.op = "mark_processed"
    /\ last.key = k_ip_unknown
    /\ Lower(last.key) \notin Keys
    /\ store.processed_count = 1
    /\ Cardinality({k \in Keys : Processed(k)}) = 1
    /\ Cardinality(Keys) = 2


----------------------------------------------------------------------------
(* The store when the run has returned *)

\* C38: when a run completes normally no node is left queued or processing:
\* every node ever admitted is processed, skip-processed if its depth is
\* beyond max_depth and marked with what the routing gave otherwise, and
\* the queue is empty
C38_AllProcessedAtReturn ==
    pc = "returned" =>
       /\ store.queue = <<>>
       /\ \A k \in Keys :
             /\ Processed(k)
             /\ Nodes[k].results = SkipResult <=>
                   BeyondDepth(Nodes[k].depth, max_depth)

\* a run returned with two nodes handed to their resolvers, at depths 0
\* and 1, and a node of depth 2 skipped for its depth
C38_Witness ==
    /\ pc = "returned"
    /\ exc = ""
    /\ Cardinality(Keys) >= 3
    /\ \E k \in Keys : Nodes[k].depth = 2 /\ Nodes[k].results = SkipResult
    /\ \E k \in Keys : Nodes[k].depth = 1 /\ Nodes[k].results = DataResult
    /\ \A k \in Keys : Processed(k)


----------------------------------------------------------------------------
(* The deepest node *)

\* C39: in every reachable state of a run every node's depth is at most
\* max_depth + 1: a candidate goes to add_node with the depth of its job
\* plus one, and its job was not beyond max_depth
C39_DepthAtMostBoundPlusOne ==
    /\ \A k \in Keys : Nodes[k].depth \in 0..(max_depth + 1)
    /\ last.op = "add_node" /\ last.source # s_initial =>
          /\ last.depth = NodeOf(last.source).depth + 1
          /\ ~BeyondDepth(NodeOf(last.source).depth, max_depth)
          /\ last.depth <= max_depth + 1

\* a job at the bound returned a candidate, which was admitted one level
\* below the bound and waits in the queue
C39_Witness ==
    /\ max_depth = MaxMaxDepth
    /\ pc = "fold"
    /\ last.op = "add_node"
    /\ last.key \in Keys
    /\ Nodes[job].depth = max_depth
    /\ Nodes[last.key].depth = max_depth + 1
    /\ Nodes[last.key].status = "queued"
    /\ Nodes[last.key].sources = <<JobKey(store, job)>>


----------------------------------------------------------------------------
(* What the run delivers *)

Delivered == DOMAIN get_high_value_nodes(store)

SkipProcessed(k) ==
    /\ Processed(k)
    /\ BeyondDepth(Nodes[k].depth, max_depth)
    /\ Nodes[k].results = SkipResult

\* the routing of start() was reached for the node: one of the hunt_*
\* methods was called, or the company branch was taken
Dispatched(k) ==
    /\ ~BeyondDepth(Nodes[k].depth, max_depth)
    /\ k \in Range(resolved) \/ Nodes[k].type = t_company

\* C40 as stated: every node of the mapping get_high_value_nodes returns at
\* the end of a run was dispatched to a resolver; a node skip-processed for
\* exceeding max_depth is not in it
C40_DeliveredWereDispatched ==
    pc = "returned" =>
       \A k \in Delivered : Dispatched(k) /\ ~SkipProcessed(k)

\* C40 amended: every node of the mapping was either dispatched and marked
\* with a result that is not empty, or skip-processed: {skipped: max_depth}
\* is a result that is not empty, so every skip-processed node of
\* confidence 0.5 or more is in the mapping
C40_DeliveredOrSkipped ==
    pc = "returned" =>
       /\ \A k \in Delivered :
             /\ Nodes[k].confidence >= 500
             /\ \/ Dispatched(k) /\ Nodes[k].results \notin {EmptyDict, SkipResult}
                \/ SkipProcessed(k) /\ k \notin Range(resolved)
       /\ \A k \in Keys :
             SkipProcessed(k) /\ Nodes[k].confidence >= 500 => k \in Delivered

\* the run returned a mapping with a node its resolver gave data for and a
\* node that no resolver saw
C40_Witness ==
    /\ pc = "returned"
    /\ \E k \in Delivered : SkipProcessed(k) /\ k \notin Range(resolved)
    /\ \E k \in Delivered : Dispatched(k) /\ Nodes[k].results = DataResult
=============================================================================
